---- MODULE Spec2Model ----
(***************************************************************************)
(* A model of the RNBS coin network: Coin and Wallet (src/src/Wallet.js),  *)
(* the witness Agent (src/Agent.js) and the Network orchestrator           *)
(* (src/src/Network.js).                                                   *)
(*                                                                         *)
(* Modelling conventions                                                   *)
(*  - A wallet id (sha256 of the public key) is the number 100 + agent     *)
(*    index; 0 stands for a missing (falsy) id.                            *)
(*  - A SHA-256 digest is the record of the fields that are hashed, so two *)
(*    digests are equal exactly when the hashed fields are.                *)
(*  - An RSA signature is the pair (signer wallet, signed payload);        *)
(*    verification succeeds exactly when the key is the signer's and the   *)
(*    verified payload is the signed one.                                  *)
(*  - An optional object (coin, signature) is a sequence of length 0 or 1. *)
(*  - reputation.score is a fixed-point number with ScoreScale units per   *)
(*    point; an importance is carried as twice its value (0.5 -> 1,        *)
(*    1 -> 2, 1.5 -> 3, 2 -> 4).                                           *)
(*  - The Bloom filter seenCoins is the exact set of the ids added to it   *)
(*    (no false negatives; its false positives are not modelled).          *)
(*  - Date.now() is the variable now, advanced by Tick; it starts at 1.    *)
(*  - An async method runs to completion as one action: its awaits resolve *)
(*    without yielding to a timer or to another call.                      *)
(*                                                                         *)
(* Specifications                                                          *)
(*  - SpecRep: updateReputation on agents with restored and seeded scores. *)
(*  - SpecAgent: validateTransfer called on one agent with transfers of    *)
(*    every shape.                                                         *)
(*  - SpecBan: one sender presenting transfer after transfer to one agent, *)
(*    and unbanWallet.                                                     *)
(*  - SpecNet: the network of numAgents agents with transferCoin, direct   *)
(*    well-signed transfers, forged copies and the retry timer.            *)
(*  - SpecScenario: the end-to-end scenarios on a fresh network.           *)
(*  - SpecDrift: forged transfers of one sender validated by agents that   *)
(*    start at score 100.                                                  *)
(*  - SpecCoin: transfer, split and merge called directly on coins.        *)
(*  - SpecStatus: transfers of coins that are not active.                  *)
(*  - SpecWallet: the network with transferCoin calls of every argument    *)
(*    and Wallet.addCoin called directly.                                  *)
(*  - SpecReject: validateTransfer called on an agent that has banned the  *)
(*    sender or has not, with arguments that make it raise included.       *)
(*  - SpecScenarioFair: SpecScenario with a retry timer that keeps firing. *)
(*  - SpecLottery: getRandomWitnesses over every score assignment.         *)
(*  - SpecHistory: updateReputation after many earlier updates.            *)
(*  - SpecOnward: a recipient transfers onward the coin it received.       *)
(*  - SpecInterleave: validateTransfer calls that overlap at the await.    *)
(*  - SpecOverlap: _processTransaction invocations that overlap.           *)
(*  - SpecCoinOps: split and merge, a coin merged with itself included.    *)
(*  - SpecInitialize: validateTransfer after initialize(coinsPerAgent).    *)
(***************************************************************************)
EXTENDS Integers, Sequences, FiniteSets, TLC

VARIABLES
    now,                  \* Date.now()
    options,              \* Network.options
    agents,               \* Network.agents: agent index -> Agent state
    coins,                \* the Coin objects: object reference -> fields
    wallets,              \* agent index -> Wallet.coins (object references)
    transactions,         \* agent index -> Wallet.transactions
    pendingTransactions,  \* Network.pendingTransactions, in insertion order
    events,               \* the events emitted by the Network, in order
    lastCall,             \* arguments and return value of the last API call
    lastValidation,       \* input and verdict of the last validateTransfer
    everValid,            \* history: <<agent, coin id>> validated as valid
    streak,               \* history: per sender, the counter-bumping
                          \* rejections by agent 0 since its last accepted
                          \* validation from the sender or the sender's unban
    suspended,            \* the continuations of the async invocations
                          \* suspended at an await, in the order the
                          \* microtask queue resumes them
    calls                 \* number of API calls made so far

vars == <<now, options, agents, coins, wallets, transactions,
          pendingTransactions, events, lastCall, lastValidation, everValid,
          streak, suspended, calls>>

----------------------------------------------------------------------------
(* Program constants and model bounds *)

numAgents == 5                 \* Network.options.numAgents
requiredWitnesses == 3         \* Network.options.requiredWitnesses (default)
maxRetries == 3                \* Network.options.maxRetries
maxFailuresBeforeBan == 5      \* Agent.maxFailuresBeforeBan
reputationHistoryCap == 100    \* Agent.updateReputation history cap

\* Stands for Agent.maxCacheSize (100000), scaled down so that eviction
\* from the recency cache happens within the bounds.
MaxCacheSize == 2
\* Fixed-point units per reputation point.
ScoreScale == 1000
\* Date.now() ranges over 1..MaxTime.
MaxTime == 2
\* Number of API calls explored in a behaviour of the network.
MaxCalls == 3
\* Number of validateTransfer calls made directly on one agent.
MaxValidations == 3
\* Number of validateTransfer calls in the banning scenario.
MaxBanValidations == 7
\* Number of updateReputation calls made directly on the agents.
MaxRepUpdates == 3
\* Number of importance-2 failure updates a restored reputation has behind it.
MaxPriorFailures == 40
\* Number of validateTransfer calls in the reputation drift scenario.
MaxForged == 32
\* Number of Coin operations made directly on the coins.
MaxCoinOps == 4
\* The largest value of the coin the Coin operations start from.
MaxCoinValue == 3

NULL == 0

Min(a, b) == IF a <= b THEN a ELSE b
Max(a, b) == IF a >= b THEN a ELSE b

Put(f, k, v) == [x \in DOMAIN f \cup {k} |-> IF x = k THEN v ELSE f[x]]
Remove(f, k) == [x \in DOMAIN f \ {k} |-> f[x]]

Agents == 0 .. numAgents - 1

\* Wallet.getId of the wallet of agent a
WalletId(a) == 100 + a

----------------------------------------------------------------------------
(* Coin *)

\* Coin.updateHash: the digest over the hashed fields
ComputeHash(c) ==
    [id |-> c.id, ownerId |-> c.ownerId, value |-> c.value,
     created |-> c.created, lastTransferred |-> c.lastTransferred,
     historyLength |-> Len(c.history), status |-> c.status,
     lastHash |-> IF Len(c.history) > 0
                  THEN <<c.history[Len(c.history)].hash>> ELSE << >>]

updateHash(c) == [c EXCEPT !.hash = <<ComputeHash(c)>>]

\* The stored hash of coin c is the hash of its current fields
HashConsistent(c) == c.hash = <<ComputeHash(c)>>

\* new Coin(initialOwnerId, value, id, metadata) for value > 0
NewCoin(owner, value, id, expiry, t) ==
    updateHash([id |-> id, ownerId |-> owner, value |-> value,
                history |-> << >>, created |-> t, lastTransferred |-> t,
                status |-> "active", expiryDate |-> expiry, hash |-> << >>])

\* Coin.verifyIntegrity: recomputes and stores the hash, then compares the
\* result with the stored hash. Returns the pair (result, coin afterwards).
verifyIntegrity(c) ==
    LET c2 == updateHash(c)
        calculatedHash == c2.hash
    IN  [ok |-> calculatedHash = c2.hash, coin |-> c2]

\* Coin.getSignatureData(recipientId, timestamp)
getSignatureData(c, recipientId, timestamp) ==
    [kind |-> "signatureData", id |-> c.id, ownerId |-> c.ownerId,
     recipient |-> recipientId, timestamp |-> timestamp, value |-> c.value,
     hash |-> c.hash, status |-> c.status]

\* A plausible slip: the transfer is recorded in the history but ownerId is
\* not rewritten.
CoinTransferKeepsOwner(c, newOwnerId, witnesses, t) ==
    IF newOwnerId = NULL THEN [thrown |-> TRUE, coin |-> c]
    ELSE IF c.status # "active" THEN [thrown |-> TRUE, coin |-> c]
    ELSE IF c.value <= 0 THEN [thrown |-> TRUE, coin |-> c]
    ELSE IF c.expiryDate # NULL /\ t > c.expiryDate
         THEN [thrown |-> TRUE, coin |-> [c EXCEPT !.status = "expired"]]
    ELSE LET entry == [type |-> "transfer", from |-> c.ownerId,
                       to |-> newOwnerId, timestamp |-> t,
                       witnesses |-> witnesses, hash |-> c.hash,
                       value |-> c.value]
         IN  [thrown |-> FALSE,
              coin |-> updateHash([c EXCEPT !.history = Append(@, entry),
                                            !.lastTransferred = t])]

\* Coin.transfer(newOwnerId, signature, witnesses): the pair (thrown, coin).
CoinTransfer(c, newOwnerId, witnesses, t) ==
    IF newOwnerId = NULL THEN [thrown |-> TRUE, coin |-> c]
    ELSE IF c.status # "active" THEN [thrown |-> TRUE, coin |-> c]
    ELSE IF c.value <= 0 THEN [thrown |-> TRUE, coin |-> c]
    ELSE IF c.expiryDate # NULL /\ t > c.expiryDate
         THEN [thrown |-> TRUE, coin |-> [c EXCEPT !.status = "expired"]]
    ELSE LET entry == [type |-> "transfer", from |-> c.ownerId,
                       to |-> newOwnerId, timestamp |-> t,
                       witnesses |-> witnesses, hash |-> c.hash,
                       value |-> c.value]
         IN  [thrown |-> FALSE,
              coin |-> updateHash([c EXCEPT !.history = Append(@, entry),
                                            !.ownerId = newOwnerId,
                                            !.lastTransferred = t])]

\* Coin.split(newValue) at time t, newId being the id generated for the new
\* coin: whether it threw, the coin afterwards and the coin returned (none
\* when it threw). The split event has no hash field (an empty one here).
CoinSplit(c, newValue, newId, t) ==
    IF newValue <= 0 \/ newValue >= c.value
    THEN [thrown |-> TRUE, coin |-> c, newCoin |-> << >>]
    ELSE LET created == NewCoin(c.ownerId, newValue, newId, c.expiryDate, t)
             splitEvent == [type |-> "split", timestamp |-> t,
                            parentCoinId |-> c.id, childCoinId |-> newId,
                            parentValue |-> c.value, childValue |-> newValue,
                            hash |-> << >>]
         IN  [thrown |-> FALSE,
              coin |-> updateHash([c EXCEPT
                                     !.value = @ - newValue,
                                     !.history = Append(@, splitEvent)]),
              newCoin |-> <<updateHash([created EXCEPT
                                          !.history = Append(@, splitEvent)])>>]

\* A plausible slip: the hash of the other coin is not updated after the
\* merge.
CoinMergeStaleHash(c, otherCoin, t) ==
    IF c.ownerId # otherCoin.ownerId
    THEN [thrown |-> TRUE, coin |-> c, otherCoin |-> otherCoin]
    ELSE IF otherCoin.status # "active" \/ c.status # "active"
    THEN [thrown |-> TRUE, coin |-> c, otherCoin |-> otherCoin]
    ELSE LET mergeEvent == [type |-> "merge", timestamp |-> t,
                            coinId1 |-> c.id, coinId2 |-> otherCoin.id,
                            value1 |-> c.value, value2 |-> otherCoin.value,
                            hash |-> << >>]
         IN  [thrown |-> FALSE,
              coin |-> updateHash([c EXCEPT
                                     !.value = @ + otherCoin.value,
                                     !.history = Append(@, mergeEvent)]),
              otherCoin |-> [otherCoin EXCEPT
                               !.status = "merged",
                               !.history = Append(@, mergeEvent)]]

\* Coin.merge(otherCoin) at time t, for two different coin objects: whether
\* it threw and the two coins afterwards. The merge event has no hash field.
CoinMerge(c, otherCoin, t) ==
    IF c.ownerId # otherCoin.ownerId
    THEN [thrown |-> TRUE, coin |-> c, otherCoin |-> otherCoin]
    ELSE IF otherCoin.status # "active" \/ c.status # "active"
    THEN [thrown |-> TRUE, coin |-> c, otherCoin |-> otherCoin]
    ELSE LET mergeEvent == [type |-> "merge", timestamp |-> t,
                            coinId1 |-> c.id, coinId2 |-> otherCoin.id,
                            value1 |-> c.value, value2 |-> otherCoin.value,
                            hash |-> << >>]
         IN  [thrown |-> FALSE,
              coin |-> updateHash([c EXCEPT
                                     !.value = @ + otherCoin.value,
                                     !.history = Append(@, mergeEvent)]),
              otherCoin |-> updateHash([otherCoin EXCEPT
                                          !.status = "merged",
                                          !.history = Append(@, mergeEvent)])]

----------------------------------------------------------------------------
(* Wallet signatures *)

\* crypto.sign(data, privateKey of wallet w)
Sign(w, data) == [signer |-> w, payload |-> data]

\* The payload Wallet.transferCoin signs
TransferSignData(coinId, sender, recipient, t) ==
    [kind |-> "transferIntent", id |-> coinId, sender |-> sender,
     recipient |-> recipient, timestamp |-> t]

\* Wallet.verifySignature(data, signature, publicKey of wallet keyOf)
verifySignature(data, signature, keyOf) ==
    signature.signer = keyOf /\ signature.payload = data

\* Wallet._recordTransaction(type, coin, recipient) at time t: the history
\* afterwards; recipient NULL stands for none, recorded as 'self'
recordTransaction(txs, type, coin, recipient, t) ==
    Append(txs, [type |-> type, coinId |-> coin.id, timestamp |-> t,
                 recipient |-> recipient,
                 \* coin.value || 1
                 value |-> IF coin.value = 0 THEN 1 ELSE coin.value])

\* A plausible slip: addCoin does not compare the coin's owner with the
\* wallet's id.
addCoinUnchecked(cs, txs, ownId, coin, ref, t) ==
    [result |-> TRUE, coins |-> Append(cs, ref),
     transactions |-> recordTransaction(txs, "receive", coin, NULL, t)]

\* Wallet.addCoin(coin) at time t on the wallet with id ownId, coins cs and
\* history txs: the value returned, the coins and the history afterwards
addCoin(cs, txs, ownId, coin, ref, t) ==
    IF coin.ownerId = ownId
    THEN [result |-> TRUE, coins |-> Append(cs, ref),
          transactions |-> recordTransaction(txs, "receive", coin, NULL, t)]
    ELSE [result |-> FALSE, coins |-> cs, transactions |-> txs]

----------------------------------------------------------------------------
(* Agent *)

\* new Agent(id): the state after construction
NewAgent ==
    [seenCoins |-> {},
     recentTransactionCache |-> << >>,
     validatedValues |-> << >>,
     validationFailures |-> << >>,
     bannedWallets |-> {},
     publicKeyDirectory |-> {},
     reputation |-> [score |-> 100 * ScoreScale, successfulValidations |-> 0,
                     failedValidations |-> 0, historyLength |-> 0],
     stats |-> [validationsPerformed |-> 0, doubleSpendsPrevented |-> 0,
                zeroBalancePrevented |-> 0, validSignatures |-> 0,
                invalidSignatures |-> 0, bannedWallets |-> 0]]

\* Agent.registerPublicKey(walletId, publicKey of walletId)
registerPublicKey(ag, walletId) ==
    [ag EXCEPT !.publicKeyDirectory = @ \cup {walletId}]

\* A plausible slip: the upper clamp Math.min(100, ...) is left out.
updateReputationNoClamp(rep, wasSuccessful, imp2) ==
    LET increase == (imp2 * (200 * ScoreScale - rep.score)) \div 400
        decrease == (imp2 * (100 * ScoreScale + rep.score)) \div 400
    IN  [rep EXCEPT
           !.score = IF wasSuccessful THEN rep.score + increase
                     ELSE Max(0, rep.score - decrease * 2),
           !.successfulValidations = @ + (IF wasSuccessful THEN 1 ELSE 0),
           !.failedValidations = @ + (IF wasSuccessful THEN 0 ELSE 1),
           !.historyLength = Min(@, reputationHistoryCap) + 1]

\* Agent.updateReputation(wasSuccessful, importance), imp2 = 2 * importance
updateReputation(rep, wasSuccessful, imp2) ==
    LET \* importance * (0.5 + (100 - score) / 200)
        increase == (imp2 * (200 * ScoreScale - rep.score)) \div 400
        \* importance * (0.5 + score / 200)
        decrease == (imp2 * (100 * ScoreScale + rep.score)) \div 400
    IN  [rep EXCEPT
           !.score = IF wasSuccessful
                     THEN Min(100 * ScoreScale, rep.score + increase)
                     ELSE Max(0, rep.score - decrease * 2),
           !.successfulValidations = @ + (IF wasSuccessful THEN 1 ELSE 0),
           !.failedValidations = @ + (IF wasSuccessful THEN 0 ELSE 1),
           !.historyLength = Min(@, reputationHistoryCap) + 1]

\* A plausible slip: the ban threshold is compared with > instead of >=.
recordValidationFailureLate(ag, walletId) ==
    IF walletId \notin DOMAIN ag.validationFailures
    THEN [ag EXCEPT !.validationFailures = Put(@, walletId, 1)]
    ELSE LET currentCount == ag.validationFailures[walletId]
         IN  IF currentCount + 1 > maxFailuresBeforeBan
             THEN [ag EXCEPT
                     !.validationFailures = Put(@, walletId, currentCount + 1),
                     !.bannedWallets = @ \cup {walletId},
                     !.stats.bannedWallets = @ + 1]
             ELSE [ag EXCEPT
                     !.validationFailures = Put(@, walletId, currentCount + 1)]

\* Agent.recordValidationFailure(walletId)
recordValidationFailure(ag, walletId) ==
    IF walletId \notin DOMAIN ag.validationFailures
    THEN [ag EXCEPT !.validationFailures = Put(@, walletId, 1)]
    ELSE LET currentCount == ag.validationFailures[walletId]
         IN  IF currentCount + 1 >= maxFailuresBeforeBan
             THEN [ag EXCEPT
                     !.validationFailures = Put(@, walletId, currentCount + 1),
                     !.bannedWallets = @ \cup {walletId},
                     !.stats.bannedWallets = @ + 1]
             ELSE [ag EXCEPT
                     !.validationFailures = Put(@, walletId, currentCount + 1)]

\* Agent.resetValidationFailures(walletId)
\* A plausible slip: an acceptance leaves the failure counter alone.
resetValidationFailuresKeeps(ag, walletId) == ag

resetValidationFailures(ag, walletId) ==
    [ag EXCEPT !.validationFailures = Remove(@, walletId)]

\* Agent.unbanWallet(walletId)
unbanWallet(ag, walletId) ==
    IF walletId \in ag.bannedWallets
    THEN [ag EXCEPT !.bannedWallets = @ \ {walletId},
                    !.validationFailures = Remove(@, walletId)]
    ELSE ag

\* Agent.getPublicKeyForWallet(walletId) of the agent whose wallet is self:
\* whether a key is returned, and the agent afterwards.
getPublicKeyForWallet(ag, self, walletId) ==
    IF walletId \in ag.publicKeyDirectory THEN [found |-> TRUE, agent |-> ag]
    ELSE IF self = walletId
         THEN [found |-> TRUE, agent |-> registerPublicKey(ag, walletId)]
    ELSE [found |-> FALSE, agent |-> ag]

\* recentTransactionCache.has(coin id) / .has(txHash)
CacheHasCoin(cache, coinId) ==
    \E i \in 1 .. Len(cache) : cache[i].kind = "coin" /\ cache[i].coinId = coinId
CacheHasTx(cache, txHash) ==
    \E i \in 1 .. Len(cache) : cache[i].kind = "tx" /\ cache[i].hash = txHash

\* recentTransactionCache.set(key, value): a Map keeps the position of a key
\* that is already present and appends a new one.
CacheSet(cache, e) ==
    IF \E i \in 1 .. Len(cache) :
           cache[i].kind = e.kind /\
           (IF e.kind = "coin" THEN cache[i].coinId = e.coinId
                               ELSE cache[i].hash = e.hash)
    THEN [i \in 1 .. Len(cache) |->
            IF cache[i].kind = e.kind /\
               (IF e.kind = "coin" THEN cache[i].coinId = e.coinId
                                   ELSE cache[i].hash = e.hash)
            THEN e ELSE cache[i]]
    ELSE Append(cache, e)

\* A plausible slip: the sort is by decreasing timestamp.
NewestIndex(cache) ==
    CHOOSE i \in 1 .. Len(cache) :
        \A j \in 1 .. Len(cache) :
            \/ cache[i].timestamp > cache[j].timestamp
            \/ cache[i].timestamp = cache[j].timestamp /\ i <= j

\* The entry the stable sort by timestamp puts first.
OldestIndex(cache) ==
    CHOOSE i \in 1 .. Len(cache) :
        \A j \in 1 .. Len(cache) :
            \/ cache[i].timestamp < cache[j].timestamp
            \/ cache[i].timestamp = cache[j].timestamp /\ i <= j

DropIndex(s, i) == [j \in 1 .. Len(s) - 1 |-> IF j < i THEN s[j] ELSE s[j + 1]]

\* Agent._pruneCache
RECURSIVE pruneCache(_)
pruneCache(cache) ==
    IF Len(cache) <= MaxCacheSize THEN cache
    ELSE pruneCache(DropIndex(cache, OldestIndex(cache)))

\* The transaction hash of stage 7
TxHash(coin, t) ==
    [coinId |-> coin.id, sender |-> t.sender, recipient |-> t.recipient,
     signature |-> t.signature[1], timestamp |-> t.timestamp,
     value |-> coin.value]

Verdict(valid, reason, ag, coin) ==
    [valid |-> valid, reason |-> reason, agent |-> ag, coin |-> coin]

\* The object obtained from a coin by JSON.parse(JSON.stringify(coin)): the
\* fields of the coin and none of the methods of Coin
PlainCoin(c) ==
    [id |-> c.id, ownerId |-> c.ownerId, value |-> c.value,
     history |-> c.history, created |-> c.created,
     lastTransferred |-> c.lastTransferred, status |-> c.status,
     expiryDate |-> c.expiryDate, hash |-> c.hash, plain |-> TRUE]

\* Whether c is an instance of Coin, so that c.verifyIntegrity is a function
IsCoin(c) == "plain" \notin DOMAIN c

\* A plausible slip: the catch block updates the reputation with the
\* default importance 1.
CaughtFullImportance(ag, coin) ==
    Verdict(FALSE, "validation error",
            [ag EXCEPT !.reputation = updateReputation(@, FALSE, 2)], coin)

\* The catch block of Agent.validateTransfer, reached from a statement
\* before the accept stage (validationSuccessful is false): a failure
\* update of importance 0.5 and the verdict 'validation error: <message>'
Caught(ag, coin) ==
    Verdict(FALSE, "validation error",
            [ag EXCEPT !.reputation = updateReputation(@, FALSE, 1)], coin)

\* Agent.validateTransfer(null): the destructuring of the argument raises
validateNull(ag) ==
    Caught([ag EXCEPT !.stats.validationsPerformed = @ + 1], << >>)

\* A plausible slip: the accept stage does not add the coin id to seenCoins.
AcceptForgetsSeen(ag, self, coin, t, txHash, t_now) ==
    LET a1 == [ag EXCEPT
                 !.stats.validSignatures = @ + 1,
                 !.recentTransactionCache =
                     pruneCache(CacheSet(
                         CacheSet(@, [kind |-> "coin", coinId |-> coin.id,
                                      hash |-> txHash, timestamp |-> t_now]),
                         [kind |-> "tx", coinId |-> coin.id,
                          hash |-> txHash, timestamp |-> t_now])),
                 !.validatedValues = Put(@, coin.id, coin.value)]
        a2 == resetValidationFailures(a1, t.sender)
        a3 == [a2 EXCEPT !.reputation = updateReputation(@, TRUE, 2)]
    IN  Verdict(TRUE, "valid", a3, <<coin>>)

\* Stage 9 onwards of Agent.validateTransfer: all checks passed
\* A plausible slip: the accept stage leaves validatedValues alone.
AcceptKeepsValue(ag, self, coin, t, txHash, t_now) ==
    LET a1 == [ag EXCEPT
                 !.stats.validSignatures = @ + 1,
                 !.seenCoins = @ \cup {coin.id},
                 !.recentTransactionCache =
                     pruneCache(CacheSet(
                         CacheSet(@, [kind |-> "coin", coinId |-> coin.id,
                                      hash |-> txHash, timestamp |-> t_now]),
                         [kind |-> "tx", coinId |-> coin.id,
                          hash |-> txHash, timestamp |-> t_now]))]
        a2 == resetValidationFailures(a1, t.sender)
        a3 == [a2 EXCEPT !.reputation = updateReputation(@, TRUE, 2)]
    IN  Verdict(TRUE, "valid", a3, <<coin>>)

Accept(ag, self, coin, t, txHash, t_now) ==
    LET a1 == [ag EXCEPT
                 !.stats.validSignatures = @ + 1,
                 !.seenCoins = @ \cup {coin.id},
                 !.recentTransactionCache =
                     pruneCache(CacheSet(
                         CacheSet(@, [kind |-> "coin", coinId |-> coin.id,
                                      hash |-> txHash, timestamp |-> t_now]),
                         [kind |-> "tx", coinId |-> coin.id,
                          hash |-> txHash, timestamp |-> t_now])),
                 !.validatedValues = Put(@, coin.id, coin.value)]
        a2 == resetValidationFailures(a1, t.sender)
        a3 == [a2 EXCEPT !.reputation = updateReputation(@, TRUE, 2)]
    IN  Verdict(TRUE, "valid", a3, <<coin>>)

\* A plausible slip: the expiry stage records a validation failure like the
\* stages around it.
ValidateSignatureExpiryCounts(ag, self, coin, t, t_now) ==
    IF coin.expiryDate # NULL /\ t_now > coin.expiryDate
    THEN Verdict(FALSE, "coin has expired",
                 recordValidationFailure(ag, t.sender), <<coin>>)
    ELSE LET txHash == TxHash(coin, t) IN
    IF CacheHasTx(ag.recentTransactionCache, txHash)
    THEN Verdict(FALSE, "transaction replay detected",
                 recordValidationFailure(ag, t.sender), <<coin>>)
    ELSE LET key == getPublicKeyForWallet(ag, self, t.sender) IN
    IF ~key.found
    THEN Verdict(FALSE, "unable to retrieve sender public key",
                 key.agent, <<coin>>)
    ELSE IF ~verifySignature(getSignatureData(coin, t.recipient, t.timestamp),
                             t.signature[1], t.sender)
    THEN Verdict(FALSE, "invalid signature",
                 recordValidationFailure(
                     [key.agent EXCEPT !.stats.invalidSignatures = @ + 1],
                     t.sender),
                 <<coin>>)
    ELSE Accept(key.agent, self, coin, t, txHash, t_now)

\* Stages 6 to 8 of Agent.validateTransfer (expiry, replay, signature),
\* then the accept stage
ValidateSignature(ag, self, coin, t, t_now) ==
    IF coin.expiryDate # NULL /\ t_now > coin.expiryDate
    THEN Verdict(FALSE, "coin has expired", ag, <<coin>>)
    ELSE LET txHash == TxHash(coin, t) IN
    IF CacheHasTx(ag.recentTransactionCache, txHash)
    THEN Verdict(FALSE, "transaction replay detected",
                 recordValidationFailure(ag, t.sender), <<coin>>)
    ELSE LET key == getPublicKeyForWallet(ag, self, t.sender) IN
    IF ~key.found
    THEN Verdict(FALSE, "unable to retrieve sender public key",
                 key.agent, <<coin>>)
    ELSE IF ~verifySignature(getSignatureData(coin, t.recipient, t.timestamp),
                             t.signature[1], t.sender)
    THEN Verdict(FALSE, "invalid signature",
                 recordValidationFailure(
                     [key.agent EXCEPT !.stats.invalidSignatures = @ + 1],
                     t.sender),
                 <<coin>>)
    ELSE Accept(key.agent, self, coin, t, txHash, t_now)

\* A plausible slip: the expiry check is made before the lookup in the
\* seen-set.
ValidateSpendAfterExpiry(ag, self, coin, t, t_now) ==
    IF coin.expiryDate # NULL /\ t_now > coin.expiryDate
    THEN Verdict(FALSE, "coin has expired", ag, <<coin>>)
    ELSE IF coin.id \in ag.seenCoins
    THEN LET a1 == recordValidationFailure(
                     [ag EXCEPT !.stats.doubleSpendsPrevented = @ + 1],
                     t.sender)
         IN  IF CacheHasCoin(ag.recentTransactionCache, coin.id)
             THEN Verdict(FALSE, "confirmed double-spend detected",
                          [a1 EXCEPT !.reputation = updateReputation(@, TRUE, 4)],
                          <<coin>>)
             ELSE Verdict(FALSE, "possible double-spend detected",
                          [a1 EXCEPT !.reputation = updateReputation(@, TRUE, 3)],
                          <<coin>>)
    ELSE ValidateSignature(ag, self, coin, t, t_now)

\* Stage 5 of Agent.validateTransfer (double-spend), then the later stages
ValidateSpend(ag, self, coin, t, t_now) ==
    IF coin.id \in ag.seenCoins
    THEN LET a1 == recordValidationFailure(
                     [ag EXCEPT !.stats.doubleSpendsPrevented = @ + 1],
                     t.sender)
         IN  IF CacheHasCoin(ag.recentTransactionCache, coin.id)
             THEN Verdict(FALSE, "confirmed double-spend detected",
                          [a1 EXCEPT !.reputation = updateReputation(@, TRUE, 4)],
                          <<coin>>)
             ELSE Verdict(FALSE, "possible double-spend detected",
                          [a1 EXCEPT !.reputation = updateReputation(@, TRUE, 3)],
                          <<coin>>)
    ELSE ValidateSignature(ag, self, coin, t, t_now)

\* A plausible slip: the comparison with the last known value and the
\* lookup in the seen-set are left out, so stage 3 is followed by stage 6.
ValidateValueNoHistory(ag, self, coin, t, t_now) ==
    IF coin.value <= 0
    THEN Verdict(FALSE, "zero or negative value coin detected",
                 recordValidationFailure(
                     [ag EXCEPT !.stats.zeroBalancePrevented = @ + 1],
                     t.sender),
                 <<coin>>)
    ELSE ValidateSignature(ag, self, coin, t, t_now)

\* A plausible slip: the zero balance check compares with < instead of <=.
ValidateValueNegativeOnly(ag, self, coin, t, t_now) ==
    IF coin.value < 0
    THEN Verdict(FALSE, "zero or negative value coin detected",
                 recordValidationFailure(
                     [ag EXCEPT !.stats.zeroBalancePrevented = @ + 1],
                     t.sender),
                 <<coin>>)
    ELSE IF coin.id \in DOMAIN ag.validatedValues
            /\ coin.value > ag.validatedValues[coin.id]
    THEN Verdict(FALSE, "coin value has been inflated",
                 recordValidationFailure(ag, t.sender), <<coin>>)
    ELSE ValidateSpend(ag, self, coin, t, t_now)

\* Stages 3 and 4 of Agent.validateTransfer (zero value, inflation), then
\* the later stages
ValidateValue(ag, self, coin, t, t_now) ==
    IF coin.value <= 0
    THEN Verdict(FALSE, "zero or negative value coin detected",
                 recordValidationFailure(
                     [ag EXCEPT !.stats.zeroBalancePrevented = @ + 1],
                     t.sender),
                 <<coin>>)
    ELSE IF coin.id \in DOMAIN ag.validatedValues
            /\ coin.value > ag.validatedValues[coin.id]
    THEN Verdict(FALSE, "coin value has been inflated",
                 recordValidationFailure(ag, t.sender), <<coin>>)
    ELSE ValidateSpend(ag, self, coin, t, t_now)

\* A plausible slip: the status stage is left out.
validateTransferAnyStatus(ag, self, t, t_now) ==
    LET a0 == [ag EXCEPT !.stats.validationsPerformed = @ + 1] IN
    IF Len(t.coin) = 0 \/ Len(t.signature) = 0
       \/ t.sender = NULL \/ t.recipient = NULL
    THEN Verdict(FALSE, "missing required transfer data", a0, t.coin)
    ELSE IF t.sender \in a0.bannedWallets
    THEN Verdict(FALSE, "sender wallet is banned due to suspicious activity",
                 a0, t.coin)
    \* coin.verifyIntegrity is not a function: a TypeError is raised
    ELSE IF ~IsCoin(t.coin[1]) THEN Caught(a0, t.coin)
    ELSE LET integrity == verifyIntegrity(t.coin[1])
             coin == integrity.coin
         IN
    IF ~integrity.ok
    THEN Verdict(FALSE, "coin integrity check failed",
                 recordValidationFailure(a0, t.sender), <<coin>>)
    ELSE ValidateValue(a0, self, coin, t, t_now)

\* Agent.validateTransfer(transfer) of the agent whose wallet id is self, at
\* time t_now: the verdict, the agent afterwards and the coin afterwards.
validateTransfer(ag, self, t, t_now) ==
    LET a0 == [ag EXCEPT !.stats.validationsPerformed = @ + 1] IN
    IF Len(t.coin) = 0 \/ Len(t.signature) = 0
       \/ t.sender = NULL \/ t.recipient = NULL
    THEN Verdict(FALSE, "missing required transfer data", a0, t.coin)
    ELSE IF t.sender \in a0.bannedWallets
    THEN Verdict(FALSE, "sender wallet is banned due to suspicious activity",
                 a0, t.coin)
    \* coin.verifyIntegrity is not a function: a TypeError is raised
    ELSE IF ~IsCoin(t.coin[1]) THEN Caught(a0, t.coin)
    ELSE LET integrity == verifyIntegrity(t.coin[1])
             coin == integrity.coin
         IN
    IF ~integrity.ok
    THEN Verdict(FALSE, "coin integrity check failed",
                 recordValidationFailure(a0, t.sender), <<coin>>)
    ELSE IF coin.status # "active"
    THEN Verdict(FALSE, "coin status is not active",
                 recordValidationFailure(a0, t.sender), <<coin>>)
    ELSE ValidateValue(a0, self, coin, t, t_now)

----------------------------------------------------------------------------
(* The state after new Network(options) and initialize(1) *)

\* 60 + Math.floor(Math.random() * 40) for agent index > 0: one draw each
SeedScore(i) == 60 + 13 * (i - 1)

\* Network.initialize: reputation seeding of agent i
SeededReputation(i, score) ==
    IF i = 0 THEN NewAgent.reputation
    ELSE [score |-> score * ScoreScale,
          successfulValidations |-> (50 * score) \div 100,
          failedValidations |-> (50 * (100 - score)) \div 100,
          historyLength |-> 0]

\* Network.initialize(coinsPerAgent = 1): every key is registered with
\* every agent, agent i holds one coin (reference and id i + 1) of value 2.
InitialAgents ==
    [i \in Agents |->
        [NewAgent EXCEPT
           !.publicKeyDirectory = {WalletId(j) : j \in Agents},
           !.reputation = SeededReputation(i, SeedScore(i))]]

InitialCoins == [r \in 1 .. numAgents |-> NewCoin(WalletId(r - 1), 2, r, NULL, 1)]

\* The record of an API call: arguments, return value (success, reason,
\* txId), and what happened during the call: the coin it took from the
\* sender's wallet (0 if none), whether no agent had that coin's id in its
\* seen-set before the call (fresh), whether a witness returned a negative
\* verdict (negative) and that verdict's reason (failReason)
NoCall == [op |-> "none", from |-> 0, to |-> 0, coinIndex |-> 0, coin |-> 0,
           success |-> FALSE, reason |-> "", txId |-> << >>, fresh |-> FALSE,
           negative |-> FALSE, failReason |-> "",
           count |-> 0, exclude |-> {}, witnesses |-> << >>]

NoValidation == [agent |-> 0, transfer |-> << >>, valid |-> FALSE,
                 reason |-> "", n |-> 0, wasValidBefore |-> FALSE,
                 bannedBefore |-> FALSE, coinAfter |-> << >>]

\* The reasons of the rejections that call recordValidationFailure
BumpReasons ==
    {"coin integrity check failed", "coin status is not active",
     "zero or negative value coin detected", "coin value has been inflated",
     "confirmed double-spend detected", "possible double-spend detected",
     "transaction replay detected", "invalid signature",
     "signature verification error"}

DoubleSpendReasons ==
    {"confirmed double-spend detected", "possible double-spend detected"}

BanReason == "sender wallet is banned due to suspicious activity"

\* The record of the n-th validateTransfer call, made on agent a in state ag
\* when ev was the history of valid verdicts: input, verdict, what held of
\* the agent before the call, and the coin object after the call
ValidationRecord(ag, ev, a, t, r, n) ==
    [agent |-> a, transfer |-> <<t>>, valid |-> r.valid, reason |-> r.reason,
     n |-> n,
     wasValidBefore |-> Len(t.coin) > 0 /\ <<a, t.coin[1].id>> \in ev,
     bannedBefore |-> t.sender \in ag.bannedWallets,
     coinAfter |-> r.coin]

\* The streak of sender t.sender after verdict r
StreakAfter(st, t, r) ==
    IF r.valid THEN Put(st, t.sender, 0)
    ELSE IF r.reason \in BumpReasons
         THEN Put(st, t.sender,
                  (IF t.sender \in DOMAIN st THEN st[t.sender] ELSE 0) + 1)
    ELSE st

InitCommon ==
    /\ now = 1
    /\ coins = InitialCoins
    /\ wallets = [i \in Agents |-> <<i + 1>>]
    /\ transactions = [i \in Agents |->
                         recordTransaction(<< >>, "receive",
                                           InitialCoins[i + 1], NULL, 1)]
    /\ pendingTransactions = << >>
    /\ events = << >>
    /\ lastCall = NoCall
    /\ lastValidation = NoValidation
    /\ everValid = {}
    /\ streak = << >>
    /\ suspended = << >>
    /\ calls = 0

\* Date.now() advances
Tick ==
    /\ now < MaxTime
    /\ now' = now + 1
    /\ UNCHANGED <<options, agents, coins, wallets, transactions,
                   pendingTransactions, events, lastCall, lastValidation, everValid, streak, suspended, calls>>

----------------------------------------------------------------------------
(* SpecRep: updateReputation called on an agent in any order *)

RECURSIVE AfterFailures(_, _)
\* The reputation after n failure updates of importance 2
AfterFailures(rep, n) ==
    IF n = 0 THEN rep ELSE AfterFailures(updateReputation(rep, FALSE, 4), n - 1)

\* Agent 0 comes up with a reputation restored by _loadState (any number
\* of earlier failures), agent 1 with a seeded score in 60..99.
InitRep ==
    /\ InitCommon
    /\ options = [numAgents |-> numAgents,
                  requiredWitnesses |-> requiredWitnesses,
                  maxRetries |-> maxRetries]
    /\ \E n \in 0 .. MaxPriorFailures, s \in {60, 99} :
         agents = [InitialAgents EXCEPT
                     ![0].reputation = AfterFailures(NewAgent.reputation, n),
                     ![1].reputation = SeededReputation(1, s)]

\* agent.updateReputation(wasSuccessful, importance)
RepUpdate(a, wasSuccessful, imp2) ==
    /\ calls < MaxRepUpdates
    /\ agents' = [agents EXCEPT ![a].reputation =
                                   updateReputation(@, wasSuccessful, imp2)]
    /\ calls' = calls + 1
    /\ lastCall' = [NoCall EXCEPT !.op = "updateReputation", !.from = a,
                                  !.success = wasSuccessful]
    /\ UNCHANGED <<now, options, coins, wallets, transactions,
                   pendingTransactions, events, lastValidation,
                   everValid, streak, suspended>>

NextRep == \E a \in {0, 1}, wasSuccessful \in BOOLEAN, imp2 \in 1 .. 4 :
              RepUpdate(a, wasSuccessful, imp2)

SpecRep == InitRep /\ [][NextRep]_vars

\* C9: for every agent, 0 <= reputation.score <= 100 in every reachable state
C9_ScoreBounded ==
    \A a \in Agents :
        /\ 0 <= agents[a].reputation.score
        /\ agents[a].reputation.score <= 100 * ScoreScale

\* An update has been clamped: a success at score 100 and a failure at score 0
C9_Witness ==
    /\ lastCall.op = "updateReputation"
    /\ agents[0].reputation.score = 0
    /\ agents[0].reputation.failedValidations > MaxPriorFailures
    /\ agents[1].reputation.successfulValidations > 49
    /\ agents[1].reputation.score = 100 * ScoreScale

----------------------------------------------------------------------------
(* SpecAgent: validateTransfer and unbanWallet called directly on agent 0 *)

DefaultOptions == [numAgents |-> numAgents,
                   requiredWitnesses |-> requiredWitnesses,
                   maxRetries |-> maxRetries]

InitAgent ==
    /\ InitCommon
    /\ options = DefaultOptions
    /\ agents = InitialAgents

\* The coins a caller may present: of either id a coin of value 1, of value
\* 2 and of value 0, a spent coin of id 1, a coin of id 2 with expiry date 1
PresentedCoins(owner) ==
    UNION {
      {NewCoin(owner, 1, id, NULL, 1), NewCoin(owner, 2, id, NULL, 1),
       [NewCoin(owner, 1, id, NULL, 1) EXCEPT !.value = 0]}
      : id \in {1, 2}}
    \cup {[NewCoin(owner, 1, 1, NULL, 1) EXCEPT !.status = "spent"],
          NewCoin(owner, 1, 2, 1, 1)}

\* The signatures a caller may present for coin c: the one witnesses verify
\* (over getSignatureData of the coin with its current hash) and the one
\* Wallet.transferCoin makes
PresentedSignatures(c, sender, recipient, ts) ==
    {Sign(sender, getSignatureData(updateHash(c), recipient, ts)),
     Sign(sender, TransferSignData(c.id, sender, recipient, ts))}

\* The transfers presented to agent 0, with timestamp 1 or now: by sender
\* agent 1 complete ones and ones without coin, signature or recipient, and
\* a well-signed one by a wallet outside the roster
PresentedTransfers ==
    UNION {
      LET sender == WalletId(1)
          outsider == WalletId(numAgents)
          c1 == NewCoin(sender, 1, 1, NULL, 1)
          c2 == NewCoin(outsider, 1, 2, NULL, 1)
          T(c, sg, from, to) == [coin |-> c, signature |-> sg, sender |-> from,
                                 recipient |-> to, timestamp |-> ts]
          S(c, from) == Sign(from, getSignatureData(c, WalletId(2), ts))
      IN  UNION {
            {T(<<c>>, <<sg>>, sender, WalletId(2)) :
                sg \in PresentedSignatures(c, sender, WalletId(2), ts)}
            : c \in PresentedCoins(sender)}
          \cup
          {T(<< >>, <<S(c1, sender)>>, sender, WalletId(2)),
           T(<<c1>>, << >>, sender, WalletId(2)),
           T(<<c1>>, <<S(c1, sender)>>, sender, NULL),
           T(<<c2>>, <<S(c2, outsider)>>, outsider, WalletId(2))}
      : ts \in {1, now}}

\* agents[0].validateTransfer(t), as call number calls + 1 of at most bound
ValidateDirectly(t, bound) ==
    /\ calls < bound
    /\ LET r == validateTransfer(agents[0], WalletId(0), t, now) IN
       /\ agents' = [agents EXCEPT ![0] = r.agent]
       /\ lastValidation' = ValidationRecord(agents[0], everValid, 0, t, r,
                                             lastValidation.n + 1)
       /\ everValid' = IF r.valid THEN everValid \cup {<<0, t.coin[1].id>>}
                       ELSE everValid
       /\ streak' = StreakAfter(streak, t, r)
       /\ UNCHANGED suspended
    /\ calls' = calls + 1
    /\ lastCall' = [NoCall EXCEPT !.op = "validateTransfer"]
    /\ UNCHANGED <<now, options, coins, wallets, transactions,
                   pendingTransactions, events>>

DirectValidate(t) == ValidateDirectly(t, MaxValidations)

\* agents[0].unbanWallet(w) for a banned wallet
DirectUnban(w) ==
    /\ w \in agents[0].bannedWallets
    /\ agents' = [agents EXCEPT ![0] = unbanWallet(@, w)]
    /\ lastCall' = [NoCall EXCEPT !.op = "unbanWallet", !.from = w,
                                  !.success = TRUE]
    /\ streak' = Put(streak, w, 0)
    /\ UNCHANGED suspended
    /\ UNCHANGED <<now, options, coins, wallets, transactions,
                   pendingTransactions, events, lastValidation,
                   everValid, calls>>

NextAgent ==
    \/ \E t \in PresentedTransfers : DirectValidate(t)
    \/ Tick

SpecAgent == InitAgent /\ [][NextAgent]_vars

\* C2 as stated: once agent A has returned valid for coin id c, every later
\* validateTransfer by A of a transfer carrying c, whatever its other fields,
\* returns valid = false with a double-spend reason.
C2_AnyLaterTransferIsDoubleSpend ==
    (lastValidation.n > 0 /\ lastValidation.wasValidBefore)
    => /\ ~lastValidation.valid
       /\ lastValidation.reason \in DoubleSpendReasons

\* C2 as the code has it: once agent A has returned valid for coin id c, every
\* later validateTransfer by A of a transfer carrying c returns valid = false;
\* the reason is a double-spend reason when the transfer gets as far as the
\* double-spend stage, that is when it is complete, its sender is not banned,
\* its coin is active, of positive value and of a value not above the one A
\* recorded for c. An eviction of c from the recency cache changes nothing.
C2_LaterTransferRejected ==
    (lastValidation.n > 0 /\ lastValidation.wasValidBefore)
    => LET t == lastValidation.transfer[1]
           c == t.coin[1]
           A == agents[lastValidation.agent]
       IN  /\ ~lastValidation.valid
           /\ c.id \in DOMAIN A.validatedValues
           /\ ( /\ Len(t.signature) > 0
                /\ t.sender # NULL
                /\ t.recipient # NULL
                /\ ~lastValidation.bannedBefore
                /\ c.status = "active"
                /\ c.value > 0
                /\ c.value <= A.validatedValues[c.id] )
              => lastValidation.reason \in DoubleSpendReasons

\* Agent 0 accepted coin 1, then coin 2, which evicted coin 1 from the
\* recency cache, and then rejected coin 1 as a possible double-spend
C2_Witness ==
    /\ lastValidation.n > 0
    /\ lastValidation.wasValidBefore
    /\ lastValidation.reason = "possible double-spend detected"
    /\ ~CacheHasCoin(agents[0].recentTransactionCache,
                     lastValidation.transfer[1].coin[1].id)

\* C10: for every agent A and coin id c, the value stored in
\* A.validatedValues[c] never increases from one state to the next, and A
\* never returns valid for a transfer whose coin value is strictly greater
\* than the value A had recorded for c.
C10_InflationMonotonic ==
    [][\A a \in Agents :
         \A c \in DOMAIN agents[a].validatedValues :
            /\ c \in DOMAIN agents'[a].validatedValues
            /\ agents'[a].validatedValues[c] <= agents[a].validatedValues[c]
            /\ ( /\ lastValidation'.n # lastValidation.n
                 /\ lastValidation'.agent = a
                 /\ lastValidation'.valid
                 /\ lastValidation'.transfer[1].coin[1].id = c )
               => lastValidation'.transfer[1].coin[1].value
                      <= agents[a].validatedValues[c]]_vars

\* Agent 0 recorded value 1 for a coin id and then rejected a transfer of
\* that id with value 2 as inflated
C10_Witness ==
    /\ lastValidation.n > 0
    /\ lastValidation.reason = "coin value has been inflated"
    /\ LET c == lastValidation.transfer[1].coin[1] IN
         /\ c.id \in DOMAIN agents[0].validatedValues
         /\ c.value > agents[0].validatedValues[c.id]

\* C17: verifyIntegrity returns true exactly when the stored hash equals the
\* hash recomputed over the coin's current fields: for a coin whose value,
\* owner, status or history was changed without the hash being recomputed,
\* verifyIntegrity returns false and a witness (that has not banned the
\* sender, given a complete transfer) rejects the transfer at the integrity
\* stage with reason 'coin integrity check failed', bumping the sender's
\* failure counter.
C17_IntegrityDetectsChange ==
    (lastValidation.n > 0 /\ Len(lastValidation.transfer[1].coin) > 0)
    => LET t == lastValidation.transfer[1]
           c == t.coin[1]
       IN  /\ verifyIntegrity(c).ok <=> HashConsistent(c)
           /\ ( /\ ~HashConsistent(c)
                /\ Len(t.signature) > 0
                /\ t.sender # NULL /\ t.recipient # NULL
                /\ ~lastValidation.bannedBefore )
              => /\ ~lastValidation.valid
                 /\ lastValidation.reason = "coin integrity check failed"
                 /\ t.sender \in DOMAIN
                        agents[lastValidation.agent].validationFailures

\* C18: no witness mutates a coin. For every verdict, validateTransfer
\* leaves every field of the coin it is given unchanged (id, ownerId, value,
\* status, history and the stored hash).
C18_ValidationLeavesCoin ==
    lastValidation.n > 0
    => lastValidation.coinAfter = lastValidation.transfer[1].coin

\* C23: replay. A verbatim resubmission to a witness of a transfer tuple
\* that this witness previously accepted (same coin id, sender, recipient,
\* signature, timestamp and value, hence the same transaction hash present
\* in its recency cache) is rejected with reason 'transaction replay
\* detected'.
C23_ReplayDetected ==
    [][( /\ lastValidation'.n # lastValidation.n
         /\ LET t == lastValidation'.transfer[1] IN
              /\ Len(t.coin) > 0 /\ Len(t.signature) > 0
              /\ CacheHasTx(agents[lastValidation'.agent].recentTransactionCache,
                            TxHash(t.coin[1], t)) )
       => /\ ~lastValidation'.valid
          /\ lastValidation'.reason = "transaction replay detected"]_vars

----------------------------------------------------------------------------
(* SpecBan: a sender presents transfer after transfer to agent 0 *)

\* What sender W = agent 1's wallet presents: a well-signed transfer of coin
\* 1, a transfer of a zero-valued coin 1, a spent coin 1, a transfer
\* without signature, and a transfer of coin 2 past its expiry date
BanTransfers ==
    LET W == WalletId(1)
        R == WalletId(2)
        good == NewCoin(W, 2, 1, NULL, 1)
        zero == [good EXCEPT !.value = 0]
        spent == [good EXCEPT !.status = "spent"]
        old == NewCoin(W, 2, 2, 1, 1)
        T(c, sg) == [coin |-> <<c>>, signature |-> sg, sender |-> W,
                     recipient |-> R, timestamp |-> 1]
        S(c) == <<Sign(W, getSignatureData(updateHash(c), R, 1))>>
    IN  {T(good, S(good)), T(zero, S(zero)), T(spent, S(spent)),
         T(good, << >>), T(old, S(old))}

BanValidate(t) == ValidateDirectly(t, MaxBanValidations)

NextBan ==
    \/ \E t \in BanTransfers : BanValidate(t)
    \/ DirectUnban(WalletId(1))
    \/ Tick

SpecBan == InitAgent /\ [][NextBan]_vars

\* C8 as stated: after maxFailuresBeforeBan counter-bumping rejections in a
\* row of transfers with sender W, W is banned; every later validation with
\* sender W is rejected with the ban reason until unbanWallet(W), which
\* removes W from the ban set and clears its counter.
C8_EveryLaterValidationBanned ==
    /\ \A w \in DOMAIN streak :
          streak[w] >= maxFailuresBeforeBan => w \in agents[0].bannedWallets
    /\ (lastValidation.n > 0 /\ lastValidation.bannedBefore)
       => /\ ~lastValidation.valid
          /\ lastValidation.reason = BanReason
    /\ lastCall.op = "unbanWallet"
       => /\ lastCall.from \notin agents[0].bannedWallets
          /\ lastCall.from \notin DOMAIN agents[0].validationFailures

\* C8 as the code has it: after maxFailuresBeforeBan counter-bumping
\* rejections in a row of transfers with sender W, W is banned; every later
\* validation with sender W is rejected, with the ban reason when the
\* transfer is complete (coin, signature, sender and recipient present),
\* until unbanWallet(W), which removes W from the ban set and clears its
\* counter.
C8_BannedSenderRejected ==
    /\ \A w \in DOMAIN streak :
          streak[w] >= maxFailuresBeforeBan => w \in agents[0].bannedWallets
    /\ (lastValidation.n > 0 /\ lastValidation.bannedBefore)
       => LET t == lastValidation.transfer[1] IN
          /\ ~lastValidation.valid
          /\ ( Len(t.coin) > 0 /\ Len(t.signature) > 0
               /\ t.sender # NULL /\ t.recipient # NULL )
             => lastValidation.reason = BanReason
    /\ lastCall.op = "unbanWallet"
       => /\ lastCall.from \notin agents[0].bannedWallets
          /\ lastCall.from \notin DOMAIN agents[0].validationFailures

\* Five rejections in a row banned W, and the well-signed transfer of an
\* unseen coin that W presented next was rejected with the ban reason
C8_Witness ==
    /\ lastValidation.n > maxFailuresBeforeBan
    /\ lastValidation.bannedBefore
    /\ lastValidation.reason = BanReason
    /\ streak[WalletId(1)] = maxFailuresBeforeBan
    /\ LET c == lastValidation.transfer[1].coin[1] IN
         c.status = "active" /\ c.value > 0

\* The stage of validateTransfer that returns a verdict with reason r:
\* 1 shape, 2 ban, 3 integrity, 4 status, 5 zero or negative value,
\* 6 inflation, 7 double-spend, 8 expiry, 9 replay, 10 signature, 11 accept
StageOf(r) ==
    CASE r = "missing required transfer data" -> 1
      [] r = BanReason -> 2
      [] r = "coin integrity check failed" -> 3
      [] r = "coin status is not active" -> 4
      [] r = "zero or negative value coin detected" -> 5
      [] r = "coin value has been inflated" -> 6
      [] r \in DoubleSpendReasons -> 7
      [] r = "coin has expired" -> 8
      [] r = "transaction replay detected" -> 9
      [] r \in {"unable to retrieve sender public key", "invalid signature",
                "signature verification error"} -> 10
      [] r = "valid" -> 11

\* The condition under which stage s of validateTransfer rejects transfer t,
\* taken on its own: agent ag with wallet id self, at time t_now
StageFails(s, ag, self, t, t_now) ==
    LET complete == /\ Len(t.coin) > 0 /\ Len(t.signature) > 0
                    /\ t.sender # NULL /\ t.recipient # NULL
    IN  IF s = 1 THEN ~complete
        ELSE IF s = 2 THEN t.sender \in ag.bannedWallets
        ELSE complete /\
             LET c == t.coin[1] IN
             CASE s = 3 -> ~verifyIntegrity(c).ok
               [] s = 4 -> c.status # "active"
               [] s = 5 -> c.value <= 0
               [] s = 6 -> /\ c.id \in DOMAIN ag.validatedValues
                           /\ c.value > ag.validatedValues[c.id]
               [] s = 7 -> c.id \in ag.seenCoins
               [] s = 8 -> c.expiryDate # NULL /\ t_now > c.expiryDate
               [] s = 9 -> CacheHasTx(ag.recentTransactionCache, TxHash(c, t))
               [] s = 10 ->
                    \/ ~getPublicKeyForWallet(ag, self, t.sender).found
                    \/ ~verifySignature(
                           getSignatureData(verifyIntegrity(c).coin,
                                            t.recipient, t.timestamp),
                           t.signature[1], t.sender)
               [] OTHER -> FALSE

\* The first stage that rejects t, 11 when none does
FirstFailingStage(ag, self, t, t_now) ==
    LET failing == {s \in 1 .. 10 : StageFails(s, ag, self, t, t_now)}
    IN  IF failing = {} THEN 11
        ELSE CHOOSE s \in failing : \A x \in failing : s <= x

\* C11: validateTransfer is ordered. The verdict of every validation carries
\* the reason of the first failing stage in the order shape, ban, integrity,
\* status, zero or negative value, inflation, double-spend, expiry, replay,
\* signature, and no effect of a later stage takes place: the failure
\* counter is bumped only by stages 3 to 7, 9 and 10, zeroBalancePrevented
\* only by stage 5, doubleSpendsPrevented only by stage 7, invalidSignatures
\* only by stage 10, the reputation only by stage 7 and by acceptance, and
\* the seen-set, the recency cache and the recorded values only by
\* acceptance.
C11_StagesOrdered ==
    [][lastValidation'.n # lastValidation.n
       => LET a == lastValidation'.agent
              t == lastValidation'.transfer[1]
              s == FirstFailingStage(agents[a], WalletId(a), t, now)
              before == agents[a]
              after == agents'[a]
          IN  /\ StageOf(lastValidation'.reason) = s
              /\ lastValidation'.valid <=> s = 11
              /\ after.stats.validationsPerformed
                    = before.stats.validationsPerformed + 1
              /\ after.stats.zeroBalancePrevented
                    = before.stats.zeroBalancePrevented
                      + (IF s = 5 THEN 1 ELSE 0)
              /\ after.stats.doubleSpendsPrevented
                    = before.stats.doubleSpendsPrevented
                      + (IF s = 7 THEN 1 ELSE 0)
              /\ after.stats.invalidSignatures
                    # before.stats.invalidSignatures => s = 10
              /\ after.reputation # before.reputation <=> s \in {7, 11}
              /\ s \in {1, 2, 8}
                 => /\ after.validationFailures = before.validationFailures
                    /\ after.bannedWallets = before.bannedWallets
              /\ s # 11
                 => /\ after.seenCoins = before.seenCoins
                    /\ after.recentTransactionCache
                          = before.recentTransactionCache
                    /\ after.validatedValues = before.validatedValues]_vars

\* Agent 0 accepted coin 1 from W, banned W after five rejections of a spent
\* coin, and then rejected W's transfer of a zero-valued coin 1 with the ban
\* reason: no zero-value rejection and no double-spend have been counted
C11_Witness ==
    /\ lastValidation.n > maxFailuresBeforeBan + 1
    /\ lastValidation.bannedBefore
    /\ lastValidation.reason = BanReason
    /\ LET c == lastValidation.transfer[1].coin[1] IN
         /\ c.value = 0
         /\ c.id \in agents[0].seenCoins
    /\ agents[0].stats.zeroBalancePrevented = 0
    /\ agents[0].stats.doubleSpendsPrevented = 0
    /\ agents[0].validationFailures[WalletId(1)] = maxFailuresBeforeBan

----------------------------------------------------------------------------
(* Network *)

\* this.agents.findIndex(a => a.getWallet().getId() === walletId)
AgentIndexOf(walletId) ==
    IF \E a \in Agents : WalletId(a) = walletId
    THEN CHOOSE a \in Agents : WalletId(a) = walletId
    ELSE -1

Range(s) == {s[i] : i \in 1 .. Len(s)}

RECURSIVE InOrder(_)
\* The members of a set of agents in the order of this.agents
InOrder(S) ==
    IF S = {} THEN << >>
    ELSE LET m == CHOOSE x \in S : \A y \in S : x <= y
         IN  <<m>> \o InOrder(S \ {m})

\* A plausible slip: the filter of getRandomWitnesses excludes nobody.
AvailableAgentsAll(exclude) == Agents

\* Network.getRandomWitnesses: this.agents.filter(a => !exclude.includes(a.id))
AvailableAgents(exclude) == Agents \ exclude

\* Network.getRandomWitnesses(count, exclude): the selections the lottery
\* can return. Every available agent when there are at most count of them;
\* otherwise count different agents in any order (every agent has a
\* positive score, hence a positive weight, and the shuffle can produce
\* any order).
getRandomWitnesses(count, exclude) ==
    LET availableAgents == AvailableAgents(exclude) IN
    IF Cardinality(availableAgents) <= count
    THEN {InOrder(availableAgents)}
    ELSE {ws \in [1 .. count -> availableAgents] :
             \A i, j \in 1 .. count : i # j => ws[i] # ws[j]}

\* The transaction id: sha256 of coin.id-sender-recipient-timestamp
TxId(cs, tr) ==
    [coinId |-> cs[tr.coin].id, sender |-> tr.sender,
     recipient |-> tr.recipient, timestamp |-> tr.timestamp]

\* The position of txId in pendingTransactions, 0 when it is not there
PendingIndex(p, txId) ==
    IF \E k \in 1 .. Len(p) : p[k].txId = txId
    THEN CHOOSE k \in 1 .. Len(p) : p[k].txId = txId
    ELSE 0

\* pendingTx.validations.filter(v => v.valid)
ValidWitnesses(e) == SelectSeq(e.validations, LAMBDA v : v.valid)

\* The state the Network's methods work on
Net ==
    [agents |-> agents, coins |-> coins, wallets |-> wallets,
     transactions |-> transactions,
     pending |-> pendingTransactions, events |-> events,
     lastValidation |-> lastValidation, everValid |-> everValid]

SetNet(S) ==
    /\ agents' = S.agents
    /\ coins' = S.coins
    /\ wallets' = S.wallets
    /\ transactions' = S.transactions
    /\ pendingTransactions' = S.pending
    /\ events' = S.events
    /\ lastValidation' = S.lastValidation
    /\ everValid' = S.everValid

\* this.emit(type, {txId, transaction, reason, witnesses}): coin is the coin
\* object of the transaction, snap is what an observer of the event sees of
\* the coin and the wallets (at most one record)
Event(type, txId, coin, reason, witnessIds, snap) ==
    [type |-> type, txId |-> txId, coin |-> coin, reason |-> reason,
     witnesses |-> witnessIds, snap |-> snap]

\* The witnesses _processTransaction can get for transaction tr: the lottery
\* over the agents other than the sender's, the recipient's and the ones
\* already tried for tr
Lottery(S, tr) ==
    LET k == PendingIndex(S.pending, TxId(S.coins, tr))
        usedWitnessIds == IF k = 0 THEN {} ELSE Range(S.pending[k].witnesses)
    IN  getRandomWitnesses(options.requiredWitnesses,
                           {AgentIndexOf(tr.sender), AgentIndexOf(tr.recipient)}
                               \cup usedWitnessIds)

\* What _processTransaction hands back: the state, the kind of return value
\* ("txId": the bare id; "confirmed" and "pending": an object with that
\* status; "thrown": an exception), and whether a witness was negative
Result(S, kind, txId, negative, reason) ==
    [net |-> S, kind |-> kind, txId |-> txId, negative |-> negative,
     reason |-> reason]

RECURSIVE ConsultWitnesses(_, _, _, _, _, _)
RECURSIVE RecordValidation(_, _, _, _, _, _, _, _)

\* The loop over the selected witnesses ws of _processTransaction, from
\* position i on, for the pending record at position k: the witness is
\* noted as tried and validates the transfer
ConsultWitnesses(S, k, tr, ws, i, t_now) ==
    IF i > Len(ws) THEN [net |-> S, negative |-> FALSE, reason |-> ""]
    ELSE
    LET t == [coin |-> <<S.coins[tr.coin]>>, signature |-> <<tr.signature>>,
              sender |-> tr.sender, recipient |-> tr.recipient,
              timestamp |-> tr.timestamp]
    IN  RecordValidation(S, k, tr, ws, i, t_now, t,
                         validateTransfer(S.agents[ws[i]], WalletId(ws[i]),
                                          t, t_now))

\* A plausible slip: the return after a negative verdict is missing, so the
\* loop goes on to the next selected witness.
RecordValidationGoesOn(S, k, tr, ws, i, t_now, t, validation) ==
    LET witness == ws[i]
        S1 == [S EXCEPT
                 !.agents[witness] = validation.agent,
                 !.coins[tr.coin] = validation.coin[1],
                 !.pending[k].witnesses = Append(@, witness),
                 !.pending[k].validations =
                     Append(@, [valid |-> validation.valid,
                                reason |-> validation.reason,
                                witnessId |-> witness]),
                 !.lastValidation =
                     ValidationRecord(S.agents[witness], S.everValid, witness,
                                      t, validation, @.n + 1),
                 !.everValid = IF validation.valid
                               THEN @ \cup {<<witness, S.coins[tr.coin].id>>}
                               ELSE @]
    IN  IF ~validation.valid
        THEN [net |-> ConsultWitnesses(
                          [S1 EXCEPT
                             !.events = Append(@, Event("transaction:invalid",
                                                        S.pending[k].txId,
                                                        tr.coin,
                                                        validation.reason,
                                                        << >>, << >>)),
                             !.pending[k].status = "failed",
                             !.pending[k].failReason = validation.reason],
                          k, tr, ws, i + 1, t_now).net,
              negative |-> TRUE, reason |-> validation.reason]
        ELSE ConsultWitnesses(S1, k, tr, ws, i + 1, t_now)

\* The body of the loop after witness ws[i] has returned validation for
\* the transfer t: the verdict is recorded, a negative one ends the loop
RecordValidation(S, k, tr, ws, i, t_now, t, validation) ==
    LET witness == ws[i]
        S1 == [S EXCEPT
                 !.agents[witness] = validation.agent,
                 !.coins[tr.coin] = validation.coin[1],
                 !.pending[k].witnesses = Append(@, witness),
                 !.pending[k].validations =
                     Append(@, [valid |-> validation.valid,
                                reason |-> validation.reason,
                                witnessId |-> witness]),
                 !.lastValidation =
                     ValidationRecord(S.agents[witness], S.everValid, witness,
                                      t, validation, @.n + 1),
                 !.everValid = IF validation.valid
                               THEN @ \cup {<<witness, S.coins[tr.coin].id>>}
                               ELSE @]
    IN  IF ~validation.valid
        THEN [net |-> [S1 EXCEPT
                         !.events = Append(@, Event("transaction:invalid",
                                                    S.pending[k].txId,
                                                    tr.coin,
                                                    validation.reason,
                                                    << >>, << >>)),
                         !.pending[k].status = "failed",
                         !.pending[k].failReason = validation.reason],
              negative |-> TRUE, reason |-> validation.reason]
        ELSE ConsultWitnesses(S1, k, tr, ws, i + 1, t_now)

\* The end of the confirm path of _processTransaction, the coin being
\* transferred: the coin goes to the recipient's wallet if the recipient is
\* an agent of this network, the pending record is deleted,
\* transaction:confirmed is emitted
Complete(S, k, tr, txId, witnessIds, recipientAgent, senderAgent, t_now) ==
    LET added == addCoin(S.wallets[recipientAgent],
                         S.transactions[recipientAgent], tr.recipient,
                         S.coins[tr.coin], tr.coin, t_now)
        ws == IF recipientAgent # -1
              THEN [S.wallets EXCEPT ![recipientAgent] = added.coins]
              ELSE S.wallets
        snap == [owner |-> S.coins[tr.coin].ownerId,
                 historyLength |-> Len(S.coins[tr.coin].history),
                 intentHistoryLength |-> tr.intentHistoryLength,
                 inRecipientWallet |->
                     recipientAgent # -1
                     /\ tr.coin \in Range(ws[recipientAgent]),
                 inSenderWallet |->
                     senderAgent # -1 /\ tr.coin \in Range(ws[senderAgent]),
                 validations |-> S.pending[k].validations]
    IN  Result([S EXCEPT
                  !.wallets = ws,
                  !.transactions =
                      IF recipientAgent # -1
                      THEN [@ EXCEPT ![recipientAgent] = added.transactions]
                      ELSE @,
                  !.pending = DropIndex(@, k),
                  !.events = Append(@, Event("transaction:confirmed", txId,
                                             tr.coin, "", witnessIds,
                                             <<snap>>))],
               "confirmed", txId, FALSE, "")

\* The confirm path of _processTransaction after coin.transfer returned or
\* threw (x)
Transferred(S, k, tr, txId, witnessIds, x, t_now) ==
    IF x.thrown
    THEN Result([S EXCEPT !.coins[tr.coin] = x.coin], "thrown", txId,
                FALSE, "")
    ELSE Complete([S EXCEPT !.coins[tr.coin] = x.coin], k, tr, txId,
                  witnessIds, AgentIndexOf(tr.recipient),
                  AgentIndexOf(tr.sender), t_now)

\* The confirm path of _processTransaction
Confirm(S, k, tr, txId, witnessIds, t_now) ==
    Transferred(S, k, tr, txId, witnessIds,
                CoinTransfer(S.coins[tr.coin], tr.recipient, witnessIds,
                             t_now),
                t_now)

\* _processTransaction after the witness loop, which ended as C says
Concluded(C, k, tr, txId, t_now, validWitnesses) ==
    IF C.negative THEN Result(C.net, "txId", txId, TRUE, C.reason)
    ELSE IF Len(validWitnesses) >= options.requiredWitnesses
    THEN Confirm(C.net, k, tr, txId,
                 [i \in 1 .. Len(validWitnesses) |->
                     validWitnesses[i].witnessId],
                 t_now)
    ELSE Result(C.net, "pending", txId, FALSE, "")

\* _processTransaction after the witness loop: the valid verdicts are
\* counted
Conclude(C, k, tr, txId, t_now) ==
    Concluded(C, k, tr, txId, t_now, ValidWitnesses(C.net.pending[k]))

\* _processTransaction once the pending record exists, at position k
Process(S, k, tr, txId, ws, t_now) ==
    IF Len(ValidWitnesses(S.pending[k])) >= options.requiredWitnesses
    THEN Result(S, "txId", txId, FALSE, "")
    ELSE Conclude(ConsultWitnesses(S, k, tr, ws, 1, t_now), k, tr, txId,
                  t_now)

\* Network._processTransaction(tr) at time t_now when the lottery returns ws
processTransaction(S, tr, ws, t_now) ==
    LET txId == TxId(S.coins, tr)
        k == PendingIndex(S.pending, txId)
    IN  IF k = 0
        THEN Process([S EXCEPT
                        !.pending = Append(@, [txId |-> txId,
                                               transaction |-> tr,
                                               witnesses |-> << >>,
                                               validations |-> << >>,
                                               retries |-> 0,
                                               status |-> "",
                                               failReason |-> ""]),
                        !.events = Append(@, Event("transaction:new", txId,
                                                   tr.coin, "", << >>,
                                                   << >>))],
                     Len(S.pending) + 1, tr, txId, ws, t_now)
        ELSE Process(S, k, tr, txId, ws, t_now)

\* result.status as Network.transferCoin reads it: a bare id has none
ResultStatus(R) ==
    IF R.kind \in {"confirmed", "pending"} THEN R.kind ELSE "undefined"

----------------------------------------------------------------------------
(* SpecNet: transfers, forged copies and retry sweeps in a network of       *)
(* numAgents agents                                                         *)

\* new Network({requiredWitnesses: q}) and initialize(1), for the default
\* quorum and for a quorum of 2
InitNet ==
    /\ InitCommon
    /\ agents = InitialAgents
    /\ \E q \in {2, requiredWitnesses} :
         options = [DefaultOptions EXCEPT !.requiredWitnesses = q]

\* The signature of a transfer intent: the one Wallet.transferCoin makes, or
\* one over the payload the witnesses verify
IntentSignature(op, c, sender, recipient, ts) ==
    IF op = "transferCoin"
    THEN Sign(sender, TransferSignData(c.id, sender, recipient, ts))
    ELSE Sign(sender, getSignatureData(c, recipient, ts))

\* The rest of Network.transferCoin once _processTransaction has returned
\* R for the coin ref taken from the wallet of agent from
Returned(R, call, from, ref) ==
    IF R.kind = "thrown"
    THEN /\ SetNet(R.net)
         /\ lastCall' = [call EXCEPT !.negative = R.negative,
                                     !.failReason = R.reason,
                                     !.reason = "thrown"]
    ELSE IF ResultStatus(R) = "failed"
    THEN /\ LET added == addCoin(R.net.wallets[from],
                                 R.net.transactions[from], WalletId(from),
                                 R.net.coins[ref], ref, now)
            IN  SetNet([R.net EXCEPT
                          !.wallets[from] = added.coins,
                          !.transactions[from] = added.transactions])
         /\ lastCall' = [call EXCEPT !.negative = R.negative,
                                     !.failReason = R.reason,
                                     !.reason = "transaction failed"]
    ELSE /\ SetNet(R.net)
         /\ lastCall' = [call EXCEPT
                           !.negative = R.negative,
                           !.failReason = R.reason,
                           !.success = TRUE,
                           !.txId = IF R.kind = "txId" THEN << >>
                                    ELSE <<R.txId>>]

\* The sender's wallet hands out the coin at coinIndex as a transfer intent
\* for recipientId (Wallet.transferCoin), which _processTransaction
\* processes; then the rest of Network.transferCoin
ProcessIntent(op, from, to, recipientId, coinIndex) ==
    LET ref == wallets[from][coinIndex + 1]
        sender == WalletId(from)
        tr == [coin |-> ref,
               signature |-> IntentSignature(op, coins[ref], sender,
                                             recipientId, now),
               sender |-> sender, recipient |-> recipientId,
               timestamp |-> now,
               intentHistoryLength |-> Len(coins[ref].history)]
        S == [Net EXCEPT
                !.wallets[from] = DropIndex(@, coinIndex + 1),
                !.transactions[from] =
                    recordTransaction(@, "send", coins[ref], recipientId, now)]
        call == [NoCall EXCEPT
                   !.op = op, !.from = from, !.to = to,
                   !.coinIndex = coinIndex, !.coin = ref,
                   !.fresh = \A a \in Agents :
                                coins[ref].id \notin agents[a].seenCoins]
    IN  \E ws \in Lottery(S, tr) :
          Returned(processTransaction(S, tr, ws, now), call, from, ref)

\* A plausible slip: only the sender's agent id is checked.
TransferCoinAnyRecipient(from, to, coinIndex) ==
    /\ calls < MaxCalls
    /\ calls' = calls + 1
    /\ UNCHANGED <<now, options, streak, suspended>>
    /\ IF from \notin Agents
       THEN /\ lastCall' = [NoCall EXCEPT
                              !.op = "transferCoin", !.from = from,
                              !.to = to, !.coinIndex = coinIndex,
                              !.reason = "invalid agent IDs"]
            /\ UNCHANGED <<agents, coins, wallets, transactions,
                           pendingTransactions, events, lastValidation,
                           everValid>>
       ELSE IF ~(coinIndex >= 0 /\ coinIndex < Len(wallets[from]))
       THEN /\ lastCall' = [NoCall EXCEPT
                              !.op = "transferCoin", !.from = from,
                              !.to = to, !.coinIndex = coinIndex,
                              !.reason = "coin not found"]
            /\ UNCHANGED <<agents, coins, wallets, transactions,
                           pendingTransactions, events, lastValidation,
                           everValid>>
       ELSE ProcessIntent("transferCoin", from, to, WalletId(to), coinIndex)

\* network.transferCoin(from, to, coinIndex)
TransferCoin(from, to, coinIndex) ==
    /\ calls < MaxCalls
    /\ calls' = calls + 1
    /\ UNCHANGED <<now, options, streak, suspended>>
    /\ IF from \notin Agents \/ to \notin Agents
       THEN /\ lastCall' = [NoCall EXCEPT
                              !.op = "transferCoin", !.from = from,
                              !.to = to, !.coinIndex = coinIndex,
                              !.reason = "invalid agent IDs"]
            /\ UNCHANGED <<agents, coins, wallets, transactions,
                           pendingTransactions, events, lastValidation,
                           everValid>>
       ELSE IF ~(coinIndex >= 0 /\ coinIndex < Len(wallets[from]))
       THEN /\ lastCall' = [NoCall EXCEPT
                              !.op = "transferCoin", !.from = from,
                              !.to = to, !.coinIndex = coinIndex,
                              !.reason = "coin not found"]
            /\ UNCHANGED <<agents, coins, wallets, transactions,
                           pendingTransactions, events, lastValidation,
                           everValid>>
       ELSE ProcessIntent("transferCoin", from, to, WalletId(to), coinIndex)

\* The wallet of agent from sends the coin at coinIndex to wallet recipientId
\* with a signature over coin.getSignatureData(recipientId, timestamp), the
\* payload witnesses verify, and the network processes the transfer
\* (network._processTransaction(transfer))
SubmitTransfer(from, recipientId, coinIndex) ==
    /\ calls < MaxCalls
    /\ coinIndex >= 0 /\ coinIndex < Len(wallets[from])
    /\ calls' = calls + 1
    /\ UNCHANGED <<now, options, streak, suspended>>
    /\ ProcessIntent("processTransaction", from, AgentIndexOf(recipientId),
                     recipientId, coinIndex)

\* The owner of wallet a makes a copy of the coin it was given at
\* initialize and has handed out since: new Coin(own id, value, same id),
\* pushed into its wallet, as simulateDoubleSpend builds it
ForgeCoin(a) ==
    LET originalCoin == a + 1 IN
    /\ calls < MaxCalls
    /\ originalCoin \notin Range(wallets[a])
    /\ calls' = calls + 1
    /\ coins' = Append(coins, NewCoin(WalletId(a),
                                      \* originalCoin.value || 1
                                      IF coins[originalCoin].value = 0 THEN 1
                                      ELSE coins[originalCoin].value,
                                      coins[originalCoin].id, NULL, now))
    /\ wallets' = [wallets EXCEPT ![a] = Append(@, Len(coins) + 1)]
    /\ lastCall' = [NoCall EXCEPT !.op = "forgeCoin", !.from = a,
                                  !.coin = Len(coins) + 1]
    /\ UNCHANGED <<now, options, agents, transactions, pendingTransactions,
                   events, lastValidation, everValid, streak, suspended>>

\* Date.now() when the retry timer fires next
SweepTime == now + 1

RECURSIVE RetryFrom(_, _, _)
RECURSIVE RetryNext(_, _, _)
RECURSIVE RetryFromLate(_, _, _)
RECURSIVE RetryFromSkipsFailed(_, _, _)

\* A plausible slip: the sweep passes over a record marked failed.
RetryFromSkipsFailed(S, txIds, i) ==
    IF i > Len(txIds) THEN {S}
    ELSE
    LET k == PendingIndex(S.pending, txIds[i]) IN
    IF k = 0 THEN RetryFromSkipsFailed(S, txIds, i + 1)
    ELSE IF S.pending[k].status = "failed"
    THEN RetryFromSkipsFailed(S, txIds, i + 1)
    ELSE IF S.pending[k].retries >= options.maxRetries
    THEN RetryFromSkipsFailed([S EXCEPT
                      !.pending = DropIndex(@, k),
                      !.events = Append(@, Event("transaction:failed",
                                                 txIds[i],
                                                 S.pending[k].transaction.coin,
                                                 "max retries exceeded",
                                                 << >>,
                                                 <<[retries |->
                                                      S.pending[k].retries,
                                                    validations |->
                                                      S.pending[k].validations]>>))],
                   txIds, i + 1)
    ELSE
    LET S1 == [S EXCEPT !.pending[k].retries = @ + 1]
        tr == S.pending[k].transaction
    IN  UNION {RetryNext(processTransaction(S1, tr, ws, SweepTime), txIds, i)
               : ws \in Lottery(S1, tr)}

\* A plausible slip: the sweep gives up once retries exceeds maxRetries.
RetryFromLate(S, txIds, i) ==
    IF i > Len(txIds) THEN {S}
    ELSE
    LET k == PendingIndex(S.pending, txIds[i]) IN
    IF k = 0 THEN RetryFromLate(S, txIds, i + 1)
    ELSE IF S.pending[k].retries > options.maxRetries
    THEN RetryFromLate([S EXCEPT
                      !.pending = DropIndex(@, k),
                      !.events = Append(@, Event("transaction:failed",
                                                 txIds[i],
                                                 S.pending[k].transaction.coin,
                                                 "max retries exceeded",
                                                 << >>,
                                                 <<[retries |->
                                                      S.pending[k].retries,
                                                    validations |->
                                                      S.pending[k].validations]>>))],
                   txIds, i + 1)
    ELSE
    LET S1 == [S EXCEPT !.pending[k].retries = @ + 1]
        tr == S.pending[k].transaction
    IN  UNION {RetryNext(processTransaction(S1, tr, ws, SweepTime), txIds, i)
               : ws \in Lottery(S1, tr)}

\* Network._retryPendingTransactions from position i of the entries txIds
\* the loop iterates over: the states it can end in
RetryFrom(S, txIds, i) ==
    IF i > Len(txIds) THEN {S}
    ELSE
    LET k == PendingIndex(S.pending, txIds[i]) IN
    IF k = 0 THEN RetryFrom(S, txIds, i + 1)
    ELSE IF S.pending[k].retries >= options.maxRetries
    THEN RetryFrom([S EXCEPT
                      !.pending = DropIndex(@, k),
                      !.events = Append(@, Event("transaction:failed",
                                                 txIds[i],
                                                 S.pending[k].transaction.coin,
                                                 "max retries exceeded",
                                                 << >>,
                                                 <<[retries |->
                                                      S.pending[k].retries,
                                                    validations |->
                                                      S.pending[k].validations]>>))],
                   txIds, i + 1)
    ELSE
    LET S1 == [S EXCEPT !.pending[k].retries = @ + 1]
        tr == S.pending[k].transaction
    IN  UNION {RetryNext(processTransaction(S1, tr, ws, SweepTime), txIds, i)
               : ws \in Lottery(S1, tr)}

\* The loop after _processTransaction has returned R for entry i: an
\* exception ends it
RetryNext(R, txIds, i) ==
    IF R.kind = "thrown" THEN {R.net} ELSE RetryFrom(R.net, txIds, i + 1)

\* The retry timer fires: Network._retryPendingTransactions. The timer
\* fires retryInterval after its last firing and after the calls made so
\* far, so Date.now() has advanced.
RetrySweep ==
    /\ Len(pendingTransactions) > 0
    /\ now' = SweepTime
    /\ \E S \in RetryFrom(Net, [k \in 1 .. Len(pendingTransactions) |->
                                   pendingTransactions[k].txId], 1) :
         SetNet(S)
    /\ lastCall' = [NoCall EXCEPT !.op = "retryPendingTransactions"]
    /\ UNCHANGED <<options, streak, suspended, calls>>

\* Agent 0 calls transferCoin (to agent 1, to an agent id outside the
\* roster, with an index past the end of its wallet), sends well-signed
\* transfers to itself, to agent 1, to agent 2 and to a wallet outside the
\* network, forges, and the timer fires
NextNet ==
    \/ \E to \in {1, numAgents}, coinIndex \in 0 .. Len(wallets[0]) :
          TransferCoin(0, to, coinIndex)
    \/ \E to \in {0, 1, 2, numAgents}, coinIndex \in 0 .. Len(wallets[0]) - 1 :
          SubmitTransfer(0, WalletId(to), coinIndex)
    \/ ForgeCoin(0)
    \/ RetrySweep
    \/ Tick

SpecNet == InitNet /\ [][NextNet]_vars

C3_HappyPath ==
    ( /\ lastCall.op = "transferCoin"
      /\ lastCall.from = 0 /\ lastCall.to = 1
      /\ lastCall.coin # 0
      /\ lastCall.fresh
      /\ options.numAgents = 5 /\ options.requiredWitnesses = 3 )
    => LET X == lastCall.coin IN
       /\ \E i \in 1 .. Len(events) :
             /\ events[i].type = "transaction:confirmed"
             /\ events[i].coin = X
             /\ \A k \in 1 .. Len(events[i].witnesses) :
                   coins[X].id \in agents[events[i].witnesses[k]].seenCoins
       /\ X \notin Range(wallets[0])
       /\ X \in Range(wallets[1])
       /\ coins[X].ownerId = WalletId(1)
       /\ Len(coins[X].history) = 1

\* C4 as stated: whenever transaction:confirmed is emitted, the coin's
\* ownerId is the recipient, its history is one entry longer than when the
\* intent was created, the recipient's wallet (if the recipient is a local
\* agent) contains the coin and the sender's wallet does not.
C4_ConfirmedMovesCoin ==
    \A i \in 1 .. Len(events) :
        events[i].type = "transaction:confirmed"
        => LET e == events[i].snap[1]
               recipient == events[i].txId.recipient
           IN  /\ e.owner = recipient
               /\ e.historyLength = e.intentHistoryLength + 1
               /\ AgentIndexOf(recipient) # -1 => e.inRecipientWallet
               /\ ~e.inSenderWallet

\* C4 as the code has it: whenever transaction:confirmed is emitted, the
\* coin's ownerId is the recipient, its history is one entry longer than
\* when the intent was created, the recipient's wallet (if the recipient is
\* a local agent) contains the coin, and the sender's wallet does not
\* contain it unless the sender is the recipient.
C4_ConfirmedMovesCoinToOther ==
    \A i \in 1 .. Len(events) :
        events[i].type = "transaction:confirmed"
        => LET e == events[i].snap[1]
               recipient == events[i].txId.recipient
           IN  /\ e.owner = recipient
               /\ e.historyLength = e.intentHistoryLength + 1
               /\ AgentIndexOf(recipient) # -1 => e.inRecipientWallet
               /\ events[i].txId.sender # recipient => ~e.inSenderWallet
               /\ events[i].txId.sender = recipient => e.inSenderWallet

\* A transfer from agent 0 to agent 1 and a transfer from agent 0 to itself
\* have both been confirmed
C4_Witness ==
    /\ \E i \in 1 .. Len(events) :
          /\ events[i].type = "transaction:confirmed"
          /\ events[i].txId.sender = WalletId(0)
          /\ events[i].txId.recipient = WalletId(1)
          /\ events[i].snap[1].inRecipientWallet
    /\ \E i \in 1 .. Len(events) :
          /\ events[i].type = "transaction:confirmed"
          /\ events[i].txId.sender = events[i].txId.recipient

\* C5: when a transfer started by transferCoin gets a negative verdict from
\* a witness, transferCoin returns success = false with that witness's
\* reason and, when the call returns, the coin is back in the sender's
\* wallet.
C5_Rollback ==
    (lastCall.op = "transferCoin" /\ lastCall.negative)
    => /\ ~lastCall.success
       /\ lastCall.reason = lastCall.failReason
       /\ lastCall.coin \in Range(wallets[lastCall.from])

\* C6: a transaction is confirmed only when at least requiredWitnesses valid
\* verdicts have been recorded for it, each from a different witness, none
\* of them the sender's agent or the recipient's agent; these witnesses are
\* the ones the event and the coin's history name.
C6_Quorum ==
    \A i \in 1 .. Len(events) :
        events[i].type = "transaction:confirmed"
        => LET e == events[i].snap[1]
               valid == {k \in 1 .. Len(e.validations) : e.validations[k].valid}
               ids == {e.validations[k].witnessId : k \in valid}
           IN  /\ Cardinality(valid) >= options.requiredWitnesses
               /\ Cardinality(ids) = Cardinality(valid)
               /\ AgentIndexOf(events[i].txId.sender) \notin ids
               /\ AgentIndexOf(events[i].txId.recipient) \notin ids
               /\ Range(events[i].witnesses) = ids

\* A retry sweep has confirmed a transfer for which one witness had been
\* negative and requiredWitnesses others were valid
C6_Witness ==
    /\ lastCall.op = "retryPendingTransactions"
    /\ Len(events) > 0
    /\ LET e == events[Len(events)] IN
         /\ e.type = "transaction:confirmed"
         /\ Len(e.witnesses) = options.requiredWitnesses
         /\ \E k \in 1 .. Len(e.snap[1].validations) :
               ~e.snap[1].validations[k].valid

\* C7: once a witness has returned a negative verdict for a transaction
\* (transaction:invalid emitted), that transaction is never confirmed and
\* its coin's owner is never rewritten.
C7_NoConfirmAfterNegative ==
    \A i \in 1 .. Len(events) :
        events[i].type = "transaction:invalid"
        => /\ coins[events[i].coin].ownerId = events[i].txId.sender
           /\ \A j \in 1 .. Len(events) :
                 ( /\ i < j
                   /\ events[j].type = "transaction:confirmed"
                   /\ events[j].coin = events[i].coin )
                 => events[i].txId # events[j].txId

\* The step is one invocation of _processTransaction: a transferCoin call
\* or a submitted transfer that got as far as processing, or a sweep of the
\* retry timer over one pending transaction that it re-processes
OneInvocation ==
    \/ /\ calls' = calls + 1
       /\ lastCall'.op \in {"transferCoin", "processTransaction"}
       /\ lastCall'.coin # 0
    \/ /\ lastCall'.op = "retryPendingTransactions"
       /\ pendingTransactions' # pendingTransactions
       /\ Len(pendingTransactions) = 1
       /\ pendingTransactions[1].retries < options.maxRetries

\* C24: short-circuit. Within one invocation of _processTransaction the
\* selected witnesses validate one after another, in the order in which
\* they are noted as tried; after the first negative verdict no further
\* witness is consulted and no other agent's state changes;
\* transaction:invalid is emitted exactly once for that invocation (and not
\* at all when no verdict is negative).
C24_ShortCircuit ==
    [][OneInvocation
       => LET emitted == {j \in Len(events) + 1 .. Len(events') :
                             events'[j].type = "transaction:invalid"}
              consulted == lastValidation'.n - lastValidation.n
              changed == {a \in Agents : agents'[a] # agents[a]}
          IN  /\ Cardinality(emitted) <= 1
              /\ Cardinality(changed) = consulted
              /\ consulted <= options.requiredWitnesses
              /\ \A j \in emitted :
                    LET txId == events'[j].txId
                        k == PendingIndex(pendingTransactions', txId)
                        k0 == PendingIndex(pendingTransactions, txId)
                        before == IF k0 = 0 THEN 0
                                  ELSE Len(pendingTransactions[k0].validations)
                        rec == pendingTransactions'[k]
                        last == Len(rec.validations)
                    IN  /\ k # 0
                        /\ consulted >= 1
                        /\ last = before + consulted
                        /\ Len(rec.witnesses) = last
                        /\ \A i \in 1 .. last :
                              rec.validations[i].witnessId = rec.witnesses[i]
                        /\ \A i \in before + 1 .. last - 1 :
                              rec.validations[i].valid
                        /\ ~rec.validations[last].valid
                        /\ rec.validations[last].reason = events'[j].reason
                        /\ lastValidation'.agent = rec.witnesses[last]
                        /\ changed = {rec.witnesses[i] :
                                         i \in before + 1 .. last}
              /\ emitted = {}
                 => /\ lastValidation'.n # lastValidation.n
                       => lastValidation'.valid
                    /\ \A a \in changed :
                          agents'[a].stats.validSignatures
                             = agents[a].stats.validSignatures + 1]_vars

\* With quorum 3 and three agents eligible, the first witness accepted the
\* forged copy agent 0 sent, the second rejected it as a double-spend and
\* the third was not consulted: one transaction:invalid, two witnesses
\* tried, the third agent has validated one transfer only
C24_Witness ==
    /\ options.requiredWitnesses = 3
    /\ lastCall.op = "processTransaction" /\ lastCall.negative
    /\ Len(events) > 0
    /\ events[Len(events)].type = "transaction:invalid"
    /\ events[Len(events)].reason \in DoubleSpendReasons
    /\ LET k == PendingIndex(pendingTransactions, events[Len(events)].txId)
       IN  /\ k # 0
           /\ Len(pendingTransactions[k].witnesses) = 2
           /\ pendingTransactions[k].validations[1].valid
           /\ ~pendingTransactions[k].validations[2].valid
           /\ \E a \in Agents \ Range(pendingTransactions[k].witnesses) :
                 /\ AgentIndexOf(events[Len(events)].txId.sender) # a
                 /\ AgentIndexOf(events[Len(events)].txId.recipient) # a
                 /\ agents[a].stats.validationsPerformed = 1

----------------------------------------------------------------------------
(* SpecScenario: the end-to-end scenarios on a fresh network: a transfer,   *)
(* a forged copy, a coin whose value its holder set to 0, witnesses that    *)
(* cannot find the sender's key, and the retry timer                        *)

\* new Network() with the default options and initialize(1), every key
\* registered with every agent; or a network whose agents have no key in
\* their directory (after initialize(0), the coins put into the wallets by
\* their holders), so that a witness finds only its own key
InitScenario ==
    /\ InitCommon
    /\ options = DefaultOptions
    /\ \E registered \in BOOLEAN :
         agents = IF registered THEN InitialAgents
                  ELSE [i \in Agents |->
                          [InitialAgents[i] EXCEPT !.publicKeyDirectory = {}]]

\* The holder writes a field of a coin in its wallet:
\* agents[a].getWallet().coins[coinIndex].value = v
SetCoinValue(a, coinIndex, v) ==
    LET ref == wallets[a][coinIndex + 1] IN
    /\ calls < MaxCalls
    /\ coins[ref].value # v
    /\ calls' = calls + 1
    /\ coins' = [coins EXCEPT ![ref].value = v]
    /\ lastCall' = [NoCall EXCEPT !.op = "setCoinValue", !.from = a,
                                  !.coinIndex = coinIndex, !.coin = ref]
    /\ UNCHANGED <<now, options, agents, wallets, transactions,
                   pendingTransactions, events, lastValidation,
                   everValid, streak, suspended>>

\* Agent 0 calls transferCoin to agent 1 and to agent 2, sends a well-signed
\* transfer to agent 1, forges, sets the value of a coin to 0, and the timer
\* fires
NextScenario ==
    \/ \E to \in {1, 2}, coinIndex \in 0 .. Len(wallets[0]) - 1 :
          TransferCoin(0, to, coinIndex)
    \/ \E coinIndex \in 0 .. Len(wallets[0]) - 1 :
          SubmitTransfer(0, WalletId(1), coinIndex)
    \/ ForgeCoin(0)
    \/ \E coinIndex \in 0 .. Len(wallets[0]) - 1 : SetCoinValue(0, coinIndex, 0)
    \/ RetrySweep
    \/ Tick

SpecScenario == InitScenario /\ [][NextScenario]_vars

\* C12: Scenario B. After a transfer of coin X from agent 0 to agent 1 (5
\* agents, quorum 3), when a forged coin with id X is put into agent 0's
\* wallet and transferred to agent 2 through transferCoin, transaction:invalid
\* is emitted with a double-spend reason, agent 2's wallet coin count is
\* unchanged, and some witness's doubleSpendsPrevented counter has grown by 1
\* and its failure counter for agent 0's wallet has been incremented.
C12_ScenarioB ==
    [][( /\ calls' = calls + 1
         /\ lastCall'.op = "transferCoin"
         /\ lastCall'.from = 0 /\ lastCall'.to = 2
         /\ lastCall'.coin # 0
         /\ \E i \in 1 .. Len(events) :
               /\ events[i].type = "transaction:new"
               /\ events[i].coin # lastCall'.coin
               /\ events[i].txId.coinId = coins[lastCall'.coin].id
               /\ events[i].txId.sender = WalletId(0)
               /\ events[i].txId.recipient = WalletId(1) )
       => /\ \E j \in Len(events) + 1 .. Len(events') :
                /\ events'[j].type = "transaction:invalid"
                /\ events'[j].coin = lastCall'.coin
                /\ events'[j].reason \in DoubleSpendReasons
          /\ Len(wallets'[2]) = Len(wallets[2])
          /\ \E w \in Agents :
                /\ agents'[w].stats.doubleSpendsPrevented
                      = agents[w].stats.doubleSpendsPrevented + 1
                /\ WalletId(0) \in DOMAIN agents'[w].validationFailures
                /\ agents'[w].validationFailures[WalletId(0)]
                      = 1 + (IF WalletId(0) \in DOMAIN agents[w].validationFailures
                             THEN agents[w].validationFailures[WalletId(0)]
                             ELSE 0)]_vars

C15_ScenarioF ==
    \A i \in 1 .. Len(events) :
        ( /\ events[i].type = "transaction:failed"
          /\ events[i].reason = "max retries exceeded"
          /\ Len(events[i].snap[1].validations) > 0
          /\ \A k \in 1 .. Len(events[i].snap[1].validations) :
                events[i].snap[1].validations[k].reason
                    = "unable to retrieve sender public key" )
        => /\ events[i].snap[1].retries = maxRetries
           /\ events[i].coin
                 \in Range(wallets[AgentIndexOf(events[i].txId.sender)])

----------------------------------------------------------------------------
(* SpecDrift: a malicious agent M sends forged transfers of one coin id to  *)
(* a network whose agents all start at score 100 with no history            *)

\* new Network(): every agent as constructed (score 100, no history), the
\* keys registered
InitDrift ==
    /\ InitCommon
    /\ options = DefaultOptions
    /\ agents = [i \in Agents |->
                    [NewAgent EXCEPT
                       !.publicKeyDirectory = {WalletId(j) : j \in Agents}]]

\* What M = agent 1 sends: a coin made with the id of its coin, signed for
\* agent 3 over the payload the witnesses verify
ForgedTransfer ==
    LET M == WalletId(1)
        fakeCoin == NewCoin(M, coins[2].value, coins[2].id, NULL, 1)
    IN  [coin |-> <<fakeCoin>>,
         signature |-> <<Sign(M, getSignatureData(fakeCoin, WalletId(3), 1))>>,
         sender |-> M, recipient |-> WalletId(3), timestamp |-> 1]

\* agents[w].validateTransfer(t), as the network calls it on a witness
WitnessValidate(w, t) ==
    /\ calls < MaxForged
    /\ LET r == validateTransfer(agents[w], WalletId(w), t, now) IN
       /\ agents' = [agents EXCEPT ![w] = r.agent]
       /\ lastValidation' = ValidationRecord(agents[w], everValid, w, t, r,
                                             lastValidation.n + 1)
       /\ everValid' = IF r.valid THEN everValid \cup {<<w, t.coin[1].id>>}
                       ELSE everValid
    /\ calls' = calls + 1
    /\ lastCall' = [NoCall EXCEPT !.op = "validateTransfer", !.from = w]
    /\ UNCHANGED <<now, options, coins, wallets, transactions,
                   pendingTransactions, events, streak, suspended>>

\* The transfers of M are validated by agent 0 or by agent 2
NextDrift == \E w \in {0, 2} : WitnessValidate(w, ForgedTransfer)

SpecDrift == InitDrift /\ [][NextDrift]_vars

RECURSIVE RejectedBy(_)
\* The number of transfers the agents of set S have rejected so far
RejectedBy(S) ==
    IF S = {} THEN 0
    ELSE LET a == CHOOSE x \in S : TRUE
         IN  agents[a].stats.validationsPerformed
             - agents[a].stats.validSignatures + RejectedBy(S \ {a})

\* C14: Scenario D. Starting with every agent at reputation score 100 and
\* no history, after agent M has sent 30 forged transfers that were each
\* rejected, agents[M].reputation.score < 50 and every other agent's
\* reputation score is > 80.
C14_ScenarioD ==
    RejectedBy(Agents) >= 30
    => /\ agents[1].reputation.score < 50 * ScoreScale
       /\ \A a \in Agents \ {1} : agents[a].reputation.score > 80 * ScoreScale

----------------------------------------------------------------------------
(* SpecCoin: the operations of Coin called directly on one coin and on the  *)
(* coins split from it                                                      *)

\* new Coin(agent 0's wallet id, v, id 1, {expiryDate}) at time 1
InitCoin ==
    /\ now = 1
    /\ options = DefaultOptions
    /\ agents = InitialAgents
    /\ \E v \in 2 .. MaxCoinValue, expiry \in {NULL, 1} :
         coins = <<NewCoin(WalletId(0), v, 1, expiry, 1)>>
    /\ wallets = [i \in Agents |-> << >>]
    /\ transactions = [i \in Agents |-> << >>]
    /\ pendingTransactions = << >>
    /\ events = << >>
    /\ lastCall = NoCall
    /\ lastValidation = NoValidation
    /\ everValid = {}
    /\ streak = << >>
    /\ suspended = << >>
    /\ calls = 0

\* coins[r].transfer(newOwnerId, signature, [])
TransferDirectly(r, newOwnerId) ==
    LET x == CoinTransfer(coins[r], newOwnerId, << >>, now) IN
    /\ calls < MaxCoinOps
    /\ calls' = calls + 1
    /\ coins' = [coins EXCEPT ![r] = x.coin]
    /\ lastCall' = [NoCall EXCEPT !.op = "transfer", !.coin = r,
                                  !.to = newOwnerId, !.success = ~x.thrown]
    /\ UNCHANGED <<now, options, agents, wallets, transactions,
                   pendingTransactions, events, lastValidation,
                   everValid, streak, suspended>>

\* coins[r].split(newValue); the coin returned is kept as the last coin
SplitDirectly(r, newValue) ==
    LET x == CoinSplit(coins[r], newValue, Len(coins) + 1, now) IN
    /\ calls < MaxCoinOps
    /\ calls' = calls + 1
    /\ coins' = [coins EXCEPT ![r] = x.coin] \o x.newCoin
    /\ lastCall' = [NoCall EXCEPT !.op = "split", !.coin = r,
                                  !.coinIndex = newValue,
                                  !.success = ~x.thrown]
    /\ UNCHANGED <<now, options, agents, wallets, transactions,
                   pendingTransactions, events, lastValidation,
                   everValid, streak, suspended>>

\* coins[r].merge(coins[other]) for two different coins
MergeDirectly(r, other) ==
    LET x == CoinMerge(coins[r], coins[other], now) IN
    /\ r # other
    /\ calls < MaxCoinOps
    /\ calls' = calls + 1
    /\ coins' = [coins EXCEPT ![r] = x.coin, ![other] = x.otherCoin]
    /\ lastCall' = [NoCall EXCEPT !.op = "merge", !.coin = r, !.to = other,
                                  !.success = ~x.thrown]
    /\ UNCHANGED <<now, options, agents, wallets, transactions,
                   pendingTransactions, events, lastValidation,
                   everValid, streak, suspended>>

NextCoin ==
    \/ \E r \in DOMAIN coins, newOwnerId \in {NULL, WalletId(1)} :
          TransferDirectly(r, newOwnerId)
    \/ \E r \in DOMAIN coins, newValue \in 0 .. MaxCoinValue :
          SplitDirectly(r, newValue)
    \/ \E r, other \in DOMAIN coins : MergeDirectly(r, other)
    \/ Tick

SpecCoin == InitCoin /\ [][NextCoin]_vars

\* C16: Scenario E. For an active coin C of value v and any k with
\* 0 < k < v, split(k) returns a new active coin C' of value k with the same
\* owner and leaves C with value v - k; merge(C, C') then gives C.value = v
\* and C'.status = merged, the last two entries of C.history are the split
\* event and a merge event, and the stored hash of both coins equals the
\* hash of their current fields.
C16_SplitThenMerge ==
    [][/\ ( /\ lastCall'.op = "split" /\ calls' = calls + 1
            /\ coins[lastCall'.coin].status = "active"
            /\ 0 < lastCall'.coinIndex
            /\ lastCall'.coinIndex < coins[lastCall'.coin].value )
          => LET C == lastCall'.coin
                 k == lastCall'.coinIndex
                 new == Len(coins')
             IN  /\ lastCall'.success
                 /\ new = Len(coins) + 1
                 /\ coins'[new].value = k
                 /\ coins'[new].status = "active"
                 /\ coins'[new].ownerId = coins[C].ownerId
                 /\ coins'[new].id \notin {coins[r].id : r \in DOMAIN coins}
                 /\ coins'[C].value = coins[C].value - k
                 /\ coins'[C].status = "active"
                 /\ HashConsistent(coins'[C])
                 /\ HashConsistent(coins'[new])
       /\ ( /\ lastCall'.op = "merge" /\ calls' = calls + 1
            /\ LET C == coins[lastCall'.coin]
                   D == coins[lastCall'.to]
               IN  /\ C.status = "active" /\ D.status = "active"
                   /\ Len(C.history) > 0
                   /\ C.history[Len(C.history)].type = "split"
                   /\ C.history[Len(C.history)].childCoinId = D.id
                   /\ D.history = <<C.history[Len(C.history)]>>
                   /\ D.value = C.history[Len(C.history)].childValue
                   /\ C.value + D.value = C.history[Len(C.history)].parentValue )
          => LET C == lastCall'.coin
                 D == lastCall'.to
                 n == Len(coins[C].history)
             IN  /\ lastCall'.success
                 /\ coins'[C].value = coins[C].history[n].parentValue
                 /\ coins'[C].status = "active"
                 /\ coins'[D].status = "merged"
                 /\ Len(coins'[C].history) = n + 1
                 /\ coins'[C].history[n] = coins[C].history[n]
                 /\ coins'[C].history[n + 1].type = "merge"
                 /\ HashConsistent(coins'[C])
                 /\ HashConsistent(coins'[D])]_vars

\* A coin of value MaxCoinValue was split and merged with the coin split
\* from it: it has its value again, the other coin is merged, its history
\* is a split event followed by a merge event
C16_Witness ==
    /\ lastCall.op = "merge" /\ lastCall.success
    /\ lastCall.coin = 1 /\ lastCall.to = 2
    /\ coins[1].value = MaxCoinValue
    /\ coins[2].status = "merged"
    /\ Len(coins[1].history) = 2
    /\ coins[1].history[1].type = "split"
    /\ coins[1].history[1].childValue = 1
    /\ coins[1].history[2].type = "merge"

\* C19: hash consistency. After every Coin operation (construction,
\* transfer whether it succeeds or raises, split, merge) the stored hash
\* equals the hash computed over the coin's current fields; this covers a
\* transfer attempted on a coin past its expiry date, which moves status to
\* expired.
C19_HashConsistency ==
    \A r \in DOMAIN coins : HashConsistent(coins[r])

----------------------------------------------------------------------------
(* SpecStatus: coins that are not active, in a fresh network and in one     *)
(* where witnesses have banned the sender                                   *)

\* An agent that has rejected maxFailuresBeforeBan transfers of wallet w
\* for their signature and so has banned w
HasBanned(ag, w) ==
    [ag EXCEPT !.validationFailures = Put(@, w, maxFailuresBeforeBan),
               !.bannedWallets = @ \cup {w},
               !.stats.bannedWallets = @ + 1,
               !.stats.validationsPerformed = @ + maxFailuresBeforeBan,
               !.stats.invalidSignatures = @ + maxFailuresBeforeBan]

\* The network after initialize, or after agents 2 and 4 have each rejected
\* maxFailuresBeforeBan transfers of agent 0's wallet
InitStatus ==
    /\ InitCommon
    /\ options = DefaultOptions
    /\ \E banned \in BOOLEAN :
         agents = IF banned
                  THEN [InitialAgents EXCEPT
                          ![2] = HasBanned(@, WalletId(0)),
                          ![4] = HasBanned(@, WalletId(0))]
                  ELSE InitialAgents

\* The holder writes the status of an active coin in its wallet:
\* agents[a].getWallet().coins[coinIndex].status = status
SetCoinStatus(a, coinIndex, status) ==
    LET ref == wallets[a][coinIndex + 1] IN
    /\ coins[ref].status = "active"
    /\ coins' = [coins EXCEPT ![ref].status = status]
    /\ lastCall' = [NoCall EXCEPT !.op = "setCoinStatus", !.from = a,
                                  !.coinIndex = coinIndex, !.coin = ref]
    /\ UNCHANGED <<now, options, agents, wallets, transactions,
                   pendingTransactions, events, lastValidation,
                   everValid, streak, suspended, calls>>

\* Agent 0 marks a coin it holds frozen, calls transfer on a coin of its own
\* that is not active, sends well-signed transfers to agent 1, forges, and
\* the timer fires
NextStatus ==
    \/ \E coinIndex \in 0 .. Len(wallets[0]) - 1 :
          SetCoinStatus(0, coinIndex, "frozen")
    \/ \E r \in DOMAIN coins :
          /\ coins[r].ownerId = WalletId(0)
          /\ coins[r].status # "active"
          /\ TransferDirectly(r, WalletId(1))
    \/ \E coinIndex \in 0 .. Len(wallets[0]) - 1 :
          SubmitTransfer(0, WalletId(1), coinIndex)
    \/ ForgeCoin(0)
    \/ RetrySweep
    \/ Tick

SpecStatus == InitStatus /\ [][NextStatus]_vars

\* What C20 says of the coins and the events of one step: Coin.transfer on a
\* coin that is not active raises, a coin that is not active keeps its
\* ownerId, value and history, and no transaction carrying it is confirmed
InactiveNotTransferred ==
    /\ ( /\ lastCall'.op = "transfer" /\ calls' = calls + 1
         /\ coins[lastCall'.coin].status # "active" )
       => ~lastCall'.success
    /\ \A r \in DOMAIN coins :
          coins[r].status # "active"
          => /\ coins'[r].ownerId = coins[r].ownerId
             /\ coins'[r].value = coins[r].value
             /\ coins'[r].history = coins[r].history
             /\ coins'[r].status # "active"
             /\ \A j \in Len(events) + 1 .. Len(events') :
                   events'[j].type = "transaction:confirmed"
                   => events'[j].coin # r

\* C20 as stated: a coin whose status is not active is never transferred:
\* Coin.transfer raises and leaves ownerId, value and history unchanged, a
\* witness rejects it with reason 'coin status is <s>, not active', and so
\* no transaction carrying such a coin is confirmed.
C20_InactiveRejectedForStatus ==
    [][/\ InactiveNotTransferred
       /\ ( /\ lastValidation'.n # lastValidation.n
            /\ lastValidation'.transfer[1].coin[1].status # "active" )
          => /\ ~lastValidation'.valid
             /\ lastValidation'.reason = "coin status is not active"]_vars

\* C20 as the code has it: a coin whose status is not active is never
\* transferred: Coin.transfer raises and leaves ownerId, value and history
\* unchanged, a witness rejects it, with reason 'coin status is <s>, not
\* active' unless the witness has banned the sender (then with the ban
\* reason), and so no transaction carrying such a coin is confirmed.
C20_InactiveRejected ==
    [][/\ InactiveNotTransferred
       /\ ( /\ lastValidation'.n # lastValidation.n
            /\ lastValidation'.transfer[1].coin[1].status # "active" )
          => /\ ~lastValidation'.valid
             /\ lastValidation'.reason
                   = IF lastValidation'.bannedBefore THEN BanReason
                     ELSE "coin status is not active"]_vars

\* Agent 0 sent a frozen coin: agent 3 rejected it for its status, at the
\* retry a witness that had banned agent 0 rejected it with the ban reason,
\* and Coin.transfer, called on it directly, raised; the coin is agent 0's
C20_Witness ==
    /\ lastCall.op = "transfer" /\ ~lastCall.success
    /\ coins[lastCall.coin].status = "frozen"
    /\ coins[lastCall.coin].ownerId = WalletId(0)
    /\ \E i, j \in 1 .. Len(events) :
          /\ i < j
          /\ events[i].type = "transaction:invalid"
          /\ events[i].reason = "coin status is not active"
          /\ events[j].type = "transaction:invalid"
          /\ events[j].reason = BanReason
          /\ coins[events[i].coin].status = "frozen"
          /\ events[j].coin = events[i].coin

----------------------------------------------------------------------------
(* SpecWallet: the wallets of the network under transfers, forged copies    *)
(* and retry sweeps, and addCoin called by the holders                      *)

\* The coin objects that are in no wallet and in no pending transaction
FreeCoins ==
    {r \in DOMAIN coins :
        /\ \A a \in Agents : r \notin Range(wallets[a])
        /\ \A k \in 1 .. Len(pendingTransactions) :
              pendingTransactions[k].transaction.coin # r}

\* agents[a].getWallet().addCoin(coins[ref]), for a coin of another owner
\* or a coin that is in no wallet and in no pending transaction
AddCoinDirectly(a, ref) ==
    LET added == addCoin(wallets[a], transactions[a], WalletId(a),
                         coins[ref], ref, now)
    IN
    /\ calls < MaxCalls
    /\ coins[ref].ownerId # WalletId(a) \/ ref \in FreeCoins
    /\ calls' = calls + 1
    /\ wallets' = [wallets EXCEPT ![a] = added.coins]
    /\ transactions' = [transactions EXCEPT ![a] = added.transactions]
    /\ lastCall' = [NoCall EXCEPT !.op = "addCoin", !.from = a, !.coin = ref,
                                  !.success = added.result]
    /\ UNCHANGED <<now, options, agents, coins, pendingTransactions, events,
                   lastValidation, everValid, streak, suspended>>

\* transferCoin is called from agent 0 to agent 1, from and to agent ids
\* outside the roster, with coin indices inside agent 0's wallet, below 0
\* and past the end; agent 0 sends well-signed transfers to agent 1 and to
\* a wallet outside the network and forges, the timer fires, and agents 0
\* and 1 call addCoin
NextWallet ==
    \/ \E ids \in {<<0, 1>>, <<0, numAgents>>, <<numAgents, 1>>, <<-1, 1>>},
          coinIndex \in -1 .. Len(wallets[0]) :
          TransferCoin(ids[1], ids[2], coinIndex)
    \/ \E to \in {1, numAgents}, coinIndex \in 0 .. Len(wallets[0]) - 1 :
          SubmitTransfer(0, WalletId(to), coinIndex)
    \/ ForgeCoin(0)
    \/ RetrySweep
    \/ \E a \in {0, 1}, ref \in DOMAIN coins : AddCoinDirectly(a, ref)
    \/ Tick

SpecWallet == InitAgent /\ [][NextWallet]_vars

\* Every coin held in a wallet has the wallet's id as its ownerId
OwnedByHolder ==
    \A a \in Agents :
        \A i \in 1 .. Len(wallets[a]) : coins[wallets[a][i]].ownerId = WalletId(a)

\* C21: wallet ownership. In every reachable state of the network, every
\* coin held in an agent's wallet has ownerId equal to that wallet's id;
\* addCoin on a coin whose ownerId differs returns false and leaves the
\* wallet's coins and transaction history unchanged.
C21_WalletOwnership ==
    /\ []OwnedByHolder
    /\ [][( /\ lastCall'.op = "addCoin" /\ calls' = calls + 1
             /\ coins[lastCall'.coin].ownerId # WalletId(lastCall'.from) )
           => /\ ~lastCall'.success
              /\ wallets' = wallets
              /\ transactions' = transactions]_vars

\* A transfer from agent 0 put a coin into agent 1's wallet, recorded as
\* received there; agent 0 then called addCoin on that coin, which returned
\* false
C21_Witness ==
    /\ lastCall.op = "addCoin" /\ lastCall.from = 0
    /\ ~lastCall.success
    /\ coins[lastCall.coin].ownerId = WalletId(1)
    /\ lastCall.coin \in Range(wallets[1])
    /\ lastCall.coin \notin Range(wallets[0])
    /\ transactions[1][Len(transactions[1])].type = "receive"
    /\ Len(transactions[1]) = 2

\* C22: transferCoin with an unknown agent index, or with a coin index
\* outside the sender's holdings (negative or not below the coin count),
\* returns success = false with reason 'invalid agent IDs' or 'coin not
\* found' and changes nothing: no wallet contents, no pending transaction,
\* no witness state, and no event is emitted.
C22_InvalidCallChangesNothing ==
    [][( /\ lastCall'.op = "transferCoin" /\ calls' = calls + 1
         /\ \/ lastCall'.from \notin Agents
            \/ lastCall'.to \notin Agents
            \/ lastCall'.coinIndex < 0
            \/ lastCall'.coinIndex >= Len(wallets[lastCall'.from]) )
       => /\ ~lastCall'.success
          /\ lastCall'.reason
                = IF lastCall'.from \in Agents /\ lastCall'.to \in Agents
                  THEN "coin not found" ELSE "invalid agent IDs"
          /\ UNCHANGED <<agents, coins, wallets, transactions,
                         pendingTransactions, events, lastValidation>>]_vars

\* With a transaction pending, transferCoin was called from agent 0 to
\* agent 1 with coin index -1 while agent 0 held a coin: 'coin not found'
C22_Witness ==
    /\ lastCall.op = "transferCoin"
    /\ lastCall.from = 0 /\ lastCall.to = 1
    /\ lastCall.coinIndex = -1
    /\ ~lastCall.success
    /\ lastCall.reason = "coin not found"
    /\ Len(wallets[0]) > 0
    /\ Len(pendingTransactions) > 0
    /\ Len(events) > 0
----------------------------------------------------------------------------
(* SpecReject: agent 0, which has banned agent 1's wallet or has not, is    *)
(* handed transfers of every shape and arguments that make it raise         *)

MaxRejectValidations == 2

\* Complete transfers by agent 1 whose coin went through JSON and is no
\* instance of Coin
RaisingTransfers ==
    LET sender == WalletId(1)
        c == NewCoin(sender, 1, 1, NULL, 1)
    IN  {[coin |-> <<PlainCoin(c)>>,
          signature |-> <<Sign(sender, getSignatureData(c, WalletId(2), 1))>>,
          sender |-> sender, recipient |-> WalletId(2), timestamp |-> 1]}

InitReject ==
    /\ InitCommon
    /\ options = DefaultOptions
    /\ \E banned \in BOOLEAN :
         agents = IF banned
                  THEN [InitialAgents EXCEPT ![0] = HasBanned(@, WalletId(1))]
                  ELSE InitialAgents

RejectValidate(t) == ValidateDirectly(t, MaxRejectValidations)

\* agents[0].validateTransfer(null), as call number calls + 1
ValidateNull ==
    /\ calls < MaxRejectValidations
    /\ LET r == validateNull(agents[0]) IN
       /\ agents' = [agents EXCEPT ![0] = r.agent]
       /\ lastValidation' = [NoValidation EXCEPT
                               !.reason = r.reason,
                               !.n = lastValidation.n + 1]
    /\ calls' = calls + 1
    /\ lastCall' = [NoCall EXCEPT !.op = "validateTransfer"]
    /\ UNCHANGED <<now, options, coins, wallets, transactions,
                   pendingTransactions, events, everValid, streak, suspended>>

NextReject ==
    \/ \E t \in PresentedTransfers \cup RaisingTransfers : RejectValidate(t)
    \/ ValidateNull
    \/ DirectUnban(WalletId(1))
    \/ Tick

SpecReject == InitReject /\ [][NextReject]_vars

\* The reasons of the rejections that leave the failure counters alone
QuietReasons ==
    {"missing required transfer data", BanReason,
     "coin has expired", "unable to retrieve sender public key"}

\* The failure counter agent ag keeps for wallet w, 0 when it keeps none
FailuresOf(ag, w) ==
    IF w \in DOMAIN ag.validationFailures THEN ag.validationFailures[w] ELSE 0

\* C25: failure-counter rule. A rejection at the shape, ban or expiry stage
\* or for a missing public key leaves validationFailures and bannedWallets
\* of the witness as they were; a rejection at the integrity, status,
\* zero-value, inflation, double-spend, replay or signature stage raises
\* the counter of the sender by exactly one and no other counter.
C25_FailureCounterRule ==
    [][( /\ lastValidation'.n # lastValidation.n
         /\ Len(lastValidation'.transfer) > 0
         /\ ~lastValidation'.valid )
       => LET t == lastValidation'.transfer[1]
              before == agents[0]
              after == agents'[0]
              r == lastValidation'.reason
          IN  /\ r \in QuietReasons \cup BumpReasons \cup {"validation error"}
              /\ r \in QuietReasons
                    => /\ after.validationFailures = before.validationFailures
                       /\ after.bannedWallets = before.bannedWallets
              /\ r \in BumpReasons
                    => /\ FailuresOf(after, t.sender)
                            = FailuresOf(before, t.sender) + 1
                       /\ DOMAIN after.validationFailures
                            = DOMAIN before.validationFailures \cup {t.sender}
                       /\ \A w \in DOMAIN before.validationFailures \ {t.sender} :
                            after.validationFailures[w]
                              = before.validationFailures[w]]_vars

\* A counted rejection of a transfer of agent 1, then an expired coin of
\* the same sender rejected with the counter left at one
C25_Witness ==
    /\ lastValidation.n = 2
    /\ lastValidation.reason = "coin has expired"
    /\ FailuresOf(agents[0], WalletId(1)) = 1

\* C28: exception containment. When validateTransfer raises outside the
\* signature stage (a null argument, a coin object without methods), the
\* verdict is invalid with reason 'validation error: <message>', the
\* reputation gets one failure update of importance 0.5, and the failure
\* counters, the ban set, seenCoins, the recency cache and validatedValues
\* are as before the call.
C28_ExceptionContained ==
    [][( /\ lastValidation'.n # lastValidation.n
         /\ \/ Len(lastValidation'.transfer) = 0
            \/ LET t == lastValidation'.transfer[1] IN
                 /\ Len(t.coin) > 0 /\ Len(t.signature) > 0
                 /\ t.sender # NULL /\ t.recipient # NULL
                 /\ t.sender \notin agents[0].bannedWallets
                 /\ ~IsCoin(t.coin[1]) )
       => LET before == agents[0]
              after == agents'[0]
          IN  /\ ~lastValidation'.valid
              /\ lastValidation'.reason = "validation error"
              /\ after.reputation = updateReputation(before.reputation, FALSE, 1)
              /\ after.validationFailures = before.validationFailures
              /\ after.bannedWallets = before.bannedWallets
              /\ after.seenCoins = before.seenCoins
              /\ after.recentTransactionCache = before.recentTransactionCache
              /\ after.validatedValues = before.validatedValues
              /\ after.stats = [before.stats EXCEPT
                                  !.validationsPerformed = @ + 1]]_vars

\* A raising call made after a counted rejection: the counter of agent 1
\* stayed at one
C28_Witness ==
    /\ lastValidation.n = 2
    /\ lastValidation.reason = "validation error"
    /\ Len(lastValidation.transfer) > 0
    /\ FailuresOf(agents[0], WalletId(1)) = 1

\* C26: frame of a rejection. A validation that returns valid = false
\* leaves seenCoins, the recency cache and validatedValues of the witness
\* as they were; a validation that returns valid adds the coin id to
\* seenCoins, inserts the cache entries of the coin id and of the
\* transaction hash, and sets validatedValues[coin id] to the coin's value.
C26_RejectionFrame ==
    [][lastValidation'.n # lastValidation.n
       => LET before == agents[0]
              after == agents'[0]
          IN  IF ~lastValidation'.valid
              THEN /\ after.seenCoins = before.seenCoins
                   /\ after.recentTransactionCache
                        = before.recentTransactionCache
                   /\ after.validatedValues = before.validatedValues
              ELSE LET t == lastValidation'.transfer[1]
                       coin == t.coin[1]
                   IN  /\ after.seenCoins = before.seenCoins \cup {coin.id}
                       /\ CacheHasCoin(after.recentTransactionCache, coin.id)
                       /\ CacheHasTx(after.recentTransactionCache,
                                     TxHash(coin, t))
                       /\ after.validatedValues
                            = Put(before.validatedValues, coin.id, coin.value)]_vars

\* An acceptance of coin 1 followed by a rejected transfer of a coin of the
\* same id and a larger value: coin 1 is still recorded with value 1
C26_Witness ==
    /\ lastValidation.n = 2
    /\ ~lastValidation.valid
    /\ lastValidation.reason = "coin value has been inflated"
    /\ agents[0].seenCoins = {1}
    /\ 1 \in DOMAIN agents[0].validatedValues
    /\ agents[0].validatedValues[1] = 1

\* The counted rejections agent 0 has returned for sender w since its last
\* acceptance from w and since the last unbanWallet(w)
StreakOf(w) == IF w \in DOMAIN streak THEN streak[w] ELSE 0

\* C27: the failure counter counts consecutive failures. A wallet is in
\* bannedWallets of agent 0 only if agent 0 has returned
\* maxFailuresBeforeBan counted rejections for that sender since its last
\* acceptance from the sender and since the last unban of the sender; the
\* counter is the number of those rejections, and an accepted validation
\* leaves no counted failure of the sender.
C27_ConsecutiveFailures ==
    /\ [](\A w \in {WalletId(i) : i \in 0 .. numAgents} :
            /\ FailuresOf(agents[0], w) = StreakOf(w)
            /\ w \in agents[0].bannedWallets
                  => StreakOf(w) >= maxFailuresBeforeBan)
    /\ [][( /\ lastValidation'.n # lastValidation.n
            /\ lastValidation'.valid )
          => FailuresOf(agents'[0], lastValidation'.transfer[1].sender) = 0]_vars

\* Agent 0 has accepted a transfer of agent 1 after counted rejections, has
\* rejected transfers of agent 1 since, and has not banned the wallet
C27_Witness ==
    /\ lastValidation.n >= maxFailuresBeforeBan + 1
    /\ WalletId(1) \in DOMAIN streak
    /\ streak[WalletId(1)] \in 1 .. maxFailuresBeforeBan - 1
    /\ WalletId(1) \notin agents[0].bannedWallets
    /\ 1 \in agents[0].seenCoins \/ 2 \in agents[0].seenCoins

\* C29: retry bound. The retries of a pending transaction never exceed
\* maxRetries; they grow by one per sweep and by nothing else, each growth
\* being one re-invocation of _processTransaction; the sweep that finds
\* retries at maxRetries removes the transaction and emits
\* transaction:failed with reason 'max retries exceeded', so that at most
\* maxRetries re-invocations precede the removal.
C29_RetryBound ==
    /\ [](/\ \A k \in 1 .. Len(pendingTransactions) :
               pendingTransactions[k].retries \in 0 .. options.maxRetries
          /\ \A i \in 1 .. Len(events) :
               events[i].type = "transaction:failed"
                  => /\ events[i].reason = "max retries exceeded"
                     /\ events[i].snap[1].retries = options.maxRetries)
    /\ [][\A k \in 1 .. Len(pendingTransactions) :
            LET k2 == PendingIndex(pendingTransactions',
                                   pendingTransactions[k].txId)
                sweep == /\ lastCall'.op = "retryPendingTransactions"
                         /\ pendingTransactions' # pendingTransactions
                before == pendingTransactions[k]
            IN  IF k2 = 0
                THEN \/ sweep /\ before.retries = options.maxRetries
                     \/ \E i \in Len(events) + 1 .. Len(events') :
                          /\ events'[i].type = "transaction:confirmed"
                          /\ events'[i].txId = before.txId
                ELSE /\ pendingTransactions'[k2].retries
                          = before.retries + (IF sweep THEN 1 ELSE 0)
                     /\ sweep => before.retries < options.maxRetries]_vars

\* The sweep has removed a transaction it had retried maxRetries times
C29_Witness ==
    /\ lastCall.op = "retryPendingTransactions"
    /\ Len(events) > 0
    /\ events[Len(events)].type = "transaction:failed"
    /\ events[Len(events)].snap[1].retries = maxRetries
    /\ PendingIndex(pendingTransactions, events[Len(events)].txId) = 0

----------------------------------------------------------------------------
(* SpecScenarioFair: the scenarios with a retry timer that keeps firing     *)

\* Whether the sweep has a transaction to look at, which is
\* ENABLED <<RetrySweep>>_vars: the sweep advances the clock
SweepEnabled == Len(pendingTransactions) > 0

\* setInterval(_retryPendingTransactions, retryInterval): the timer fires
\* again and again, so that a sweep that stays enabled is taken. This is
\* WF_vars(RetrySweep) written out with SweepEnabled for the enabling
\* condition.
TimerFairness == []<>~SweepEnabled \/ []<><<RetrySweep>>_vars

SpecScenarioFair == SpecScenario /\ TimerFairness

\* The ids of the transactions agent 0 enters in the scenarios
ScenarioTxIds ==
    [timestamp : 1 .. MaxTime + MaxCalls * (maxRetries + 1),
     recipient : {WalletId(1), WalletId(2)},
     coinId : {1}, sender : {WalletId(0)}]

RECURSIVE RetriesLeft(_)

\* The sweeps the records p can still take part in: maxRetries - retries
\* re-invocations and the removal, for each
RetriesLeft(p) ==
    IF p = << >> THEN 0
    ELSE (options.maxRetries + 1 - Head(p).retries) + RetriesLeft(Tail(p))

\* C30: liveness of the retry sweep. With a retry timer that keeps firing,
\* every transaction entered in pendingTransactions eventually leaves it,
\* a transaction marked failed and a transaction with no untried witness
\* left included: every sweep brings the pending records closer to their
\* removal, whatever their status and their witnesses.
C30_PendingLeaves ==
    /\ [](\A k \in 1 .. Len(pendingTransactions) :
            pendingTransactions[k].txId \in ScenarioTxIds)
    /\ [][( /\ lastCall'.op = "retryPendingTransactions"
            /\ now' = now + 1
            /\ \/ lastCall.op # "retryPendingTransactions"
               \/ pendingTransactions' # pendingTransactions
               \/ now >= MaxTime )
          => RetriesLeft(pendingTransactions')
                < RetriesLeft(pendingTransactions)]_vars
    /\ \A id \in ScenarioTxIds :
          (PendingIndex(pendingTransactions, id) # 0)
              ~> (PendingIndex(pendingTransactions, id) = 0)

\* A transaction that every eligible witness had rejected, marked failed
\* and with no untried witness left, has been removed by the sweep
C30_Witness ==
    /\ lastCall.op = "retryPendingTransactions"
    /\ Len(events) > 0
    /\ LET e == events[Len(events)] IN
         /\ e.type = "transaction:failed"
         /\ PendingIndex(pendingTransactions, e.txId) = 0
         /\ Cardinality({e.snap[1].validations[k].witnessId :
                           k \in 1 .. Len(e.snap[1].validations)})
               = numAgents - 2
         /\ \A k \in 1 .. Len(e.snap[1].validations) :
               ~e.snap[1].validations[k].valid

----------------------------------------------------------------------------
(* SpecLottery: getRandomWitnesses as the code computes it, for agents of   *)
(* any score and every outcome of Math.random()                             *)

\* Math.random() is d / DrawScale for a d in 0 .. DrawScale - 1
DrawScale == 4

\* The scores of the agents of SpecLottery, in points
LotteryScores == {0, 50, 100}

\* Math.ceil(count * 0.7)
reputationBasedCount(count) == (7 * count + 9) \div 10

RECURSIVE SumTo(_, _)
\* scores[1] + ... + scores[i]
SumTo(scores, i) == IF i = 0 THEN 0 ELSE SumTo(scores, i - 1) + scores[i]

\* Network._weightedRandomSelection(weights) for the weights score / total
\* of the remaining agents and Math.random() = d / DrawScale: the position
\* (from 1) it returns. The normalised weight of position i is
\* scores[i] / sum; when total or sum is 0 every weight is NaN, no
\* comparison holds and the fallback returns the last position.
weightedRandomSelection(scores, total, d) ==
    LET sum == SumTo(scores, Len(scores)) IN
    IF total = 0 \/ sum = 0 THEN Len(scores)
    ELSE CHOOSE i \in 1 .. Len(scores) :
            /\ d * sum <= DrawScale * SumTo(scores, i)
            /\ \A j \in 1 .. i - 1 : d * sum > DrawScale * SumTo(scores, j)

RECURSIVE SelectByReputation(_, _, _, _, _)
RECURSIVE SelectByReputationKeeps(_, _, _, _, _)

\* A plausible slip: the selected agent is not spliced out of the
\* remaining ones.
SelectByReputationKeeps(ags, remainingAgents, selectedWitnesses, total, draws) ==
    IF draws = << >> \/ remainingAgents = << >>
    THEN [selected |-> selectedWitnesses, remaining |-> remainingAgents]
    ELSE LET selectedIndex ==
                 weightedRandomSelection(
                     [k \in 1 .. Len(remainingAgents) |->
                         ags[remainingAgents[k]].reputation.score],
                     total, Head(draws))
         IN  SelectByReputationKeeps(ags, remainingAgents,
                                     Append(selectedWitnesses,
                                            remainingAgents[selectedIndex]),
                                     total, Tail(draws))

\* The first loop of _getReputationBasedWitnesses, one iteration per draw
SelectByReputation(ags, remainingAgents, selectedWitnesses, total, draws) ==
    IF draws = << >> \/ remainingAgents = << >>
    THEN [selected |-> selectedWitnesses, remaining |-> remainingAgents]
    ELSE LET selectedIndex ==
                 weightedRandomSelection(
                     [k \in 1 .. Len(remainingAgents) |->
                         ags[remainingAgents[k]].reputation.score],
                     total, Head(draws))
         IN  SelectByReputation(ags, DropIndex(remainingAgents, selectedIndex),
                                Append(selectedWitnesses,
                                       remainingAgents[selectedIndex]),
                                total, Tail(draws))

\* Network._getReputationBasedWitnesses(availableAgents, count) when
\* Math.random() returns draws in the first loop: the results the shuffle
\* of the remaining agents can give
getReputationBasedWitnesses(ags, availableAgents, count, draws) ==
    LET totalReputationPoints ==
            SumTo([k \in 1 .. Len(availableAgents) |->
                      ags[availableAgents[k]].reputation.score],
                  Len(availableAgents))
        randomCount == count - reputationBasedCount(count)
        first == SelectByReputation(ags, availableAgents, << >>,
                                    totalReputationPoints, draws)
        n == Min(randomCount, Len(first.remaining))
    IN  IF randomCount > 0 /\ Len(first.remaining) > 0
        THEN {first.selected \o shuffled :
                shuffled \in {sh \in [1 .. n -> Range(first.remaining)] :
                                 \A i, j \in 1 .. n : i # j => sh[i] # sh[j]}}
        ELSE {first.selected}

\* Network.getRandomWitnesses(count, exclude) on agents ags when
\* Math.random() returns draws in the weighted selection
RandomWitnesses(ags, count, exclude, draws) ==
    LET availableAgents == InOrder(AvailableAgents(exclude)) IN
    IF Len(availableAgents) <= count THEN {availableAgents}
    ELSE getReputationBasedWitnesses(ags, availableAgents, count, draws)

\* new Network() whose agents have any of the scores of LotteryScores
InitLottery ==
    /\ InitCommon
    /\ options = DefaultOptions
    /\ \E sc \in [Agents -> LotteryScores] :
         agents = [i \in Agents |->
                     [InitialAgents[i] EXCEPT
                        !.reputation.score = sc[i] * ScoreScale]]

\* network.getRandomWitnesses(count, exclude)
GetRandomWitnesses(count, exclude) ==
    /\ lastCall.op = "none"
    /\ \E draws \in [1 .. reputationBasedCount(count) -> 0 .. DrawScale - 1] :
         \E ws \in RandomWitnesses(agents, count, exclude, draws) :
            lastCall' = [NoCall EXCEPT !.op = "getRandomWitnesses",
                                       !.count = count, !.exclude = exclude,
                                       !.witnesses = ws]
    /\ UNCHANGED <<now, options, agents, coins, wallets, transactions,
                   pendingTransactions, events, lastValidation, everValid,
                   streak, suspended, calls>>

NextLottery ==
    \E count \in 0 .. numAgents - 1,
       exclude \in {{}, {0}, {0, 1}, {-1, 0}, {0, 1, 2}} :
          GetRandomWitnesses(count, exclude)

SpecLottery == InitLottery /\ [][NextLottery]_vars

\* C31: getRandomWitnesses(count, exclude) returns pairwise distinct agents
\* none of which is excluded: the whole pool when the pool has at most
\* count agents, exactly count agents otherwise, whatever the scores and
\* the draws.
C31_WitnessSelection ==
    lastCall.op = "getRandomWitnesses"
       => LET ws == lastCall.witnesses
              pool == Agents \ lastCall.exclude
          IN  /\ \A i, j \in 1 .. Len(ws) : i # j => ws[i] # ws[j]
              /\ Range(ws) \subseteq pool
              /\ IF Cardinality(pool) <= lastCall.count
                 THEN Range(ws) = pool
                 ELSE Len(ws) = lastCall.count

\* Four witnesses drawn from five agents whose scores are all 0: three by
\* the fallback of the weighted selection and one by the shuffle
C31_Witness ==
    /\ lastCall.op = "getRandomWitnesses"
    /\ lastCall.count = 4 /\ lastCall.exclude = {}
    /\ \A a \in Agents : agents[a].reputation.score = 0
    /\ Len(lastCall.witnesses) = 4

----------------------------------------------------------------------------
(* SpecHistory: updateReputation on an agent with a long history            *)

MaxPriorUpdates == 100

RECURSIVE AfterManyFailures(_, _)
\* The reputation after n more failed validations of importance 2, taken
\* MaxPriorFailures at a time
AfterManyFailures(rep, n) ==
    IF n <= MaxPriorFailures THEN AfterFailures(rep, n)
    ELSE CHOOSE r \in {AfterManyFailures(q, n - MaxPriorFailures) :
                          q \in {AfterFailures(rep, MaxPriorFailures)}} : TRUE

\* Agent 0 has made up to MaxPriorUpdates reputation updates before
InitHistory ==
    /\ InitCommon
    /\ options = DefaultOptions
    /\ \E n \in 0 .. MaxPriorUpdates :
         agents = [InitialAgents EXCEPT
                     ![0].reputation =
                         AfterManyFailures(NewAgent.reputation, n)]

SpecHistory == InitHistory /\ [][NextRep]_vars

\* C32 as stated: reputation.history never holds more than 100 entries.
C32_HistoryCapped ==
    \A a \in Agents :
        agents[a].reputation.historyLength <= reputationHistoryCap

----------------------------------------------------------------------------
(* The recency cache in SpecAgent *)

\* C33: after every validateTransfer the recency cache of the witness holds
\* at most the cap of entries; when an accept pushes it over the cap the
\* entries removed are the oldest by timestamp, and no more than needed: no
\* entry is evicted while an entry with a strictly older timestamp is kept.
C33_CachePruned ==
    /\ [](\A a \in Agents :
            Len(agents[a].recentTransactionCache) <= MaxCacheSize)
    /\ [][lastValidation'.n # lastValidation.n
          => LET before == agents[0].recentTransactionCache
                 after == agents'[0].recentTransactionCache
                 evicted == Range(before) \ Range(after)
             IN  /\ \A e \in evicted, k \in Range(after) :
                       e.timestamp <= k.timestamp
                 /\ evicted # {} => Len(after) = MaxCacheSize
                 /\ lastValidation'.valid
                       => /\ Len(after) = Min(MaxCacheSize, Len(before) + 2)
                          /\ \E k \in Range(after) : k.timestamp = now
                 /\ ~lastValidation'.valid => after = before]_vars

\* Agent 0 accepted a coin at time 1 and another at time 2: the cache is at
\* its cap, the entries of time 1 are gone and those of time 2 are kept
C33_Witness ==
    /\ agents[0].seenCoins = {1, 2}
    /\ Len(agents[0].recentTransactionCache) = MaxCacheSize
    /\ \A k \in Range(agents[0].recentTransactionCache) : k.timestamp = 2
    /\ lastValidation.valid

----------------------------------------------------------------------------
(* The coins of initialize in SpecScenario *)

\* The agents whose wallet holds the coin object ref
HoldersOf(ref) == {a \in Agents : ref \in Range(wallets[a])}

\* C34 as stated: coin conservation. In every reachable state each coin
\* created by initialize is held in exactly one agent's wallet or is the
\* coin of a transaction in pendingTransactions, and is in no second wallet
\* and at no second position of a wallet.
C34_CoinConservation ==
    \A ref \in 1 .. Len(InitialCoins) :
        /\ Cardinality(HoldersOf(ref)) <= 1
        /\ \A a \in Agents :
              Cardinality({i \in 1 .. Len(wallets[a]) : wallets[a][i] = ref})
                 <= 1
        /\ \/ Cardinality(HoldersOf(ref)) = 1
           \/ \E k \in 1 .. Len(pendingTransactions) :
                 pendingTransactions[k].transaction.coin = ref

----------------------------------------------------------------------------
(* The value transferCoin returns in SpecNet *)

\* C35 as stated: when transferCoin returns success = true, the transaction
\* has been confirmed during the call (the last event is its
\* transaction:confirmed) and the returned txId is that transaction's id; a
\* call whose transaction got a negative verdict or is still pending does
\* not return success = true.
C35_SuccessMeansConfirmed ==
    (lastCall.op = "transferCoin" /\ lastCall.success)
    => /\ Len(lastCall.txId) = 1
       /\ Len(events) > 0
       /\ events[Len(events)].type = "transaction:confirmed"
       /\ events[Len(events)].txId = lastCall.txId[1]
       /\ ~lastCall.negative
       /\ PendingIndex(pendingTransactions, lastCall.txId[1]) = 0

----------------------------------------------------------------------------
(* SpecOnward: a recipient transfers onward the coin it has received *)

\* Agent 0 sends well-signed transfers of its coins to agent 1, agent 1
\* sends well-signed transfers of the coins it holds to agent 2, and the
\* timer fires
NextOnward ==
    \/ \E coinIndex \in 0 .. Len(wallets[0]) - 1 :
          SubmitTransfer(0, WalletId(1), coinIndex)
    \/ \E coinIndex \in 0 .. Len(wallets[1]) - 1 :
          SubmitTransfer(1, WalletId(2), coinIndex)
    \/ RetrySweep
    \/ Tick

SpecOnward == InitNet /\ [][NextOnward]_vars

\* C36 as stated: onward transfer. After the transfer of coin X from agent
\* 0 to agent 1 has been confirmed, the transfer of X that agent 1 (who has
\* made no other transfer of X) sends to agent 2 is never rejected with a
\* double-spend reason, whichever witnesses validate it.
C36_OnwardTransfer ==
    \A i, j \in 1 .. Len(events) :
        ( /\ i < j
          /\ events[i].type = "transaction:confirmed"
          /\ events[i].txId.sender = WalletId(0)
          /\ events[i].txId.recipient = WalletId(1)
          /\ events[j].type = "transaction:invalid"
          /\ events[j].coin = events[i].coin
          /\ events[j].txId.sender = WalletId(1)
          /\ events[j].txId.recipient = WalletId(2) )
        => events[j].reason \notin DoubleSpendReasons

----------------------------------------------------------------------------
(* SpecInterleave: validateTransfer calls on agent 0 that overlap: a call   *)
(* runs up to its await of getPublicKeyForWallet, and its continuation      *)
(* runs when the microtask queue reaches it                                 *)

\* The verdicts validateTransfer returns after the await of
\* getPublicKeyForWallet
AfterLookupReasons ==
    {"unable to retrieve sender public key", "invalid signature",
     "signature verification error", "valid"}

\* Agent.validateTransfer(t) up to the await of getPublicKeyForWallet: the
\* stages before it are run on the state the call finds; the call is
\* suspended there when none of them returns, with validationsPerformed
\* counted, and coin, txHash as computed so far
BeforeLookup(ag, self, t, t_now) ==
    LET r == validateTransfer(ag, self, t, t_now) IN
    IF r.reason \in AfterLookupReasons
    THEN [awaits |-> TRUE,
          verdict |-> Verdict(FALSE, "",
                              [ag EXCEPT !.stats.validationsPerformed = @ + 1],
                              r.coin)]
    ELSE [awaits |-> FALSE, verdict |-> r]

\* Agent.validateTransfer from the await of getPublicKeyForWallet on: the
\* lookup, the signature stage and the accept stage, on the state the
\* continuation finds
AfterLookup(ag, self, coin, t, txHash, t_now) ==
    LET key == getPublicKeyForWallet(ag, self, t.sender) IN
    IF ~key.found
    THEN Verdict(FALSE, "unable to retrieve sender public key",
                 key.agent, <<coin>>)
    ELSE IF ~verifySignature(getSignatureData(coin, t.recipient, t.timestamp),
                             t.signature[1], t.sender)
    THEN Verdict(FALSE, "invalid signature",
                 recordValidationFailure(
                     [key.agent EXCEPT !.stats.invalidSignatures = @ + 1],
                     t.sender),
                 <<coin>>)
    ELSE Accept(key.agent, self, coin, t, txHash, t_now)

\* The continuation of the n-th validateTransfer call, suspended on agent a;
\* overlaps: the calls for the same coin id suspended on a when it started;
\* overlapValid: one of those has returned valid since
ValidationContinuation(a, t, coin, n, overlaps) ==
    [fn |-> "validateTransfer", agent |-> a, transfer |-> t, coin |-> coin,
     txHash |-> TxHash(coin, t), n |-> n, overlaps |-> overlaps,
     overlapValid |-> FALSE]

\* The calls for coin id suspended on agent a
SuspendedFor(a, id) ==
    {suspended[k].n : k \in {j \in 1 .. Len(suspended) :
                               /\ suspended[j].agent = a
                               /\ suspended[j].coin.id = id}}

\* agents[0].validateTransfer(t) is called and runs until it returns or
\* awaits
StartValidate(t) ==
    /\ calls < MaxValidations
    /\ calls' = calls + 1
    /\ LET b == BeforeLookup(agents[0], WalletId(0), t, now) IN
       /\ agents' = [agents EXCEPT ![0] = b.verdict.agent]
       /\ IF b.awaits
          THEN /\ suspended' =
                     Append(suspended,
                            ValidationContinuation(
                                0, t, b.verdict.coin[1], calls + 1,
                                SuspendedFor(0, b.verdict.coin[1].id)))
               /\ UNCHANGED <<lastValidation, everValid>>
          ELSE /\ lastValidation' =
                     ValidationRecord(agents[0], everValid, 0, t, b.verdict,
                                      calls + 1)
               /\ UNCHANGED <<suspended, everValid>>
    /\ lastCall' = [NoCall EXCEPT !.op = "validateTransfer"]
    /\ UNCHANGED <<now, options, coins, wallets, transactions,
                   pendingTransactions, events, streak>>

\* The microtask queue runs the continuation at its head: the call returns
ResumeValidate ==
    /\ Len(suspended) > 0
    /\ LET c == Head(suspended)
           r == AfterLookup(agents[c.agent], WalletId(c.agent), c.coin,
                            c.transfer, c.txHash, now)
       IN
       /\ agents' = [agents EXCEPT ![c.agent] = r.agent]
       /\ lastValidation' =
             ValidationRecord(agents[c.agent], everValid, c.agent,
                              c.transfer, r, c.n)
       /\ everValid' = IF r.valid
                       THEN everValid \cup {<<c.agent, c.coin.id>>}
                       ELSE everValid
       /\ suspended' =
             [k \in 1 .. Len(suspended) - 1 |->
                 [suspended[k + 1] EXCEPT
                    !.overlapValid = @ \/ (r.valid /\ c.n \in
                                              suspended[k + 1].overlaps)]]
    /\ lastCall' = [NoCall EXCEPT !.op = "validateTransfer"]
    /\ UNCHANGED <<now, options, coins, wallets, transactions,
                   pendingTransactions, events, streak, calls>>

NextInterleave ==
    \/ \E t \in PresentedTransfers : StartValidate(t)
    \/ ResumeValidate
    \/ Tick

SpecInterleave == InitAgent /\ [][NextInterleave]_vars

\* C37 as stated: interleaved validations on one witness. When a
\* validateTransfer call on agent 0 returns valid, no call for the same coin
\* id that was suspended at the public-key lookup when this one started has
\* returned valid.
C37_OverlapAtMostOneValid ==
    [][(/\ Len(suspended) > 0
        /\ Len(suspended') = Len(suspended) - 1
        /\ lastValidation'.valid)
       => ~suspended[1].overlapValid]_vars

----------------------------------------------------------------------------
(* SpecOverlap: invocations of _processTransaction that overlap. An        *)
(* invocation runs until it awaits a witness's validateTransfer, which in   *)
(* turn awaits getPublicKeyForWallet; the continuations run in the order    *)
(* of the microtask queue. One transaction is in flight at a time.          *)

\* A continuation in the microtask queue, of invocation inv of
\* _processTransaction(tr): fn = "validateTransfer" when witness ws[i] is
\* suspended at its lookup (txHash as it computed it), fn =
\* "_processTransaction" when ws[i] has returned validation. pendingTx is
\* the invocation's reference to the pending record: the one in
\* pendingTransactions, or the object itself once it has been deleted there
\* (orphan).
Continuation(fn, inv, tr, txId, ws, i) ==
    [fn |-> fn, inv |-> inv, tr |-> tr, txId |-> txId, ws |-> ws, i |-> i,
     txHash |-> << >>, validation |-> << >>, orphan |-> << >>]

\* The transfer object a witness is handed for tr
TransferOf(S, tr) ==
    [coin |-> <<S.coins[tr.coin]>>, signature |-> <<tr.signature>>,
     sender |-> tr.sender, recipient |-> tr.recipient,
     timestamp |-> tr.timestamp]

\* What a run of an invocation ends in: the state, the continuation it
\* leaves in the queue (none when the invocation has returned) and the kind
\* of return value
Ran(S, task, kind) == [net |-> S, task |-> task, kind |-> kind]

\* The witness loop of _processTransaction at position i, the pending
\* record being at position k: the witness is noted as tried and its
\* validateTransfer runs until it returns or awaits; after the last witness
\* the valid verdicts are counted
AskWitness(S, k, c, i, t_now) ==
    IF i > Len(c.ws)
    THEN LET R == Conclude([net |-> S, negative |-> FALSE, reason |-> ""],
                           k, c.tr, c.txId, t_now)
         IN  Ran(R.net, << >>, R.kind)
    ELSE
    LET w == c.ws[i]
        S1 == [S EXCEPT !.pending[k].witnesses = Append(@, w)]
        t == TransferOf(S1, c.tr)
        b == CHOOSE x \in {BeforeLookup(S1.agents[w], WalletId(w), t,
                                        t_now)} : TRUE
        S2 == [S1 EXCEPT !.agents[w] = b.verdict.agent,
                         !.coins[c.tr.coin] = b.verdict.coin[1]]
    IN  IF b.awaits
        THEN Ran(S2,
                 <<[c EXCEPT !.fn = "validateTransfer", !.i = i,
                             !.txHash = <<TxHash(b.verdict.coin[1], t)>>]>>,
                 "awaits")
        ELSE Ran([S2 EXCEPT
                    !.lastValidation =
                        ValidationRecord(S1.agents[w], S1.everValid, w, t,
                                         b.verdict, @.n + 1)],
                 <<[c EXCEPT !.fn = "_processTransaction", !.i = i,
                             !.validation =
                                 <<[valid |-> b.verdict.valid,
                                    reason |-> b.verdict.reason]>>]>>,
                 "awaits")

\* The continuation c runs, the pending record of its invocation being at
\* position k: a suspended validateTransfer returns its verdict to the
\* awaiting _processTransaction; _processTransaction records the verdict it
\* awaited, returns on a negative one and goes on with the loop otherwise
RunContinuation(S, k, c, t_now) ==
    LET w == c.ws[c.i] IN
    IF c.fn = "validateTransfer"
    THEN LET t == TransferOf(S, c.tr)
             r == CHOOSE x \in {AfterLookup(S.agents[w], WalletId(w),
                                             S.coins[c.tr.coin], t,
                                             c.txHash[1], t_now)} : TRUE
         IN  Ran([S EXCEPT
                    !.agents[w] = r.agent,
                    !.coins[c.tr.coin] = r.coin[1],
                    !.lastValidation =
                        ValidationRecord(S.agents[w], S.everValid, w, t, r,
                                         @.n + 1),
                    !.everValid = IF r.valid
                                  THEN @ \cup {<<w, S.coins[c.tr.coin].id>>}
                                  ELSE @],
                 <<[c EXCEPT !.fn = "_processTransaction",
                             !.validation = <<[valid |-> r.valid,
                                               reason |-> r.reason]>>]>>,
                 "awaits")
    ELSE
    LET v == c.validation[1]
        S1 == [S EXCEPT
                 !.pending[k].validations =
                     Append(@, [valid |-> v.valid, reason |-> v.reason,
                                witnessId |-> w])]
    IN  IF ~v.valid
        THEN Ran([S1 EXCEPT
                    !.events = Append(@, Event("transaction:invalid", c.txId,
                                               c.tr.coin, v.reason, << >>,
                                               << >>)),
                    !.pending[k].status = "failed",
                    !.pending[k].failReason = v.reason],
                 << >>, "txId")
        ELSE AskWitness(S1, k, c, c.i + 1, t_now)

\* Network._processTransaction(tr), invocation inv, until it returns or
\* awaits: the runs the lottery allows
BeginProcess(S, tr, inv, t_now) ==
    LET txId == TxId(S.coins, tr)
        k0 == PendingIndex(S.pending, txId)
        S1 == IF k0 # 0 THEN S
              ELSE [S EXCEPT
                      !.pending = Append(@, [txId |-> txId,
                                             transaction |-> tr,
                                             witnesses |-> << >>,
                                             validations |-> << >>,
                                             retries |-> 0,
                                             status |-> "",
                                             failReason |-> ""]),
                      !.events = Append(@, Event("transaction:new", txId,
                                                 tr.coin, "", << >>, << >>))]
        k == IF k0 # 0 THEN k0 ELSE Len(S.pending) + 1
    IN  IF Len(ValidWitnesses(S1.pending[k])) >= options.requiredWitnesses
        THEN {Ran(S1, << >>, "txId")}
        ELSE {AskWitness(S1, k,
                         Continuation("_processTransaction", inv, tr, txId,
                                      ws, 1),
                         1, t_now)
              : ws \in Lottery(S1, tr)}

\* The suspended invocations that hold the pending record of txId keep the
\* object obj when it is deleted from pendingTransactions
Orphaned(q, txId, obj) ==
    [j \in 1 .. Len(q) |->
        IF q[j].txId = txId /\ Len(q[j].orphan) = 0
        THEN [q[j] EXCEPT !.orphan = <<obj>>]
        ELSE q[j]]

\* The wallet of agent from sends the coin at coinIndex to recipientId with
\* a signature over coin.getSignatureData and the application calls
\* network._processTransaction(transfer), which runs until it awaits
StartProcess(from, recipientId, coinIndex) ==
    /\ calls < MaxCalls
    /\ Len(pendingTransactions) = 0 /\ Len(suspended) = 0
    /\ coinIndex >= 0 /\ coinIndex < Len(wallets[from])
    /\ calls' = calls + 1
    /\ LET ref == wallets[from][coinIndex + 1]
           sender == WalletId(from)
           tr == [coin |-> ref,
                  signature |-> IntentSignature("processTransaction",
                                                coins[ref], sender,
                                                recipientId, now),
                  sender |-> sender, recipient |-> recipientId,
                  timestamp |-> now,
                  intentHistoryLength |-> Len(coins[ref].history)]
           S == [Net EXCEPT
                   !.wallets[from] = DropIndex(@, coinIndex + 1),
                   !.transactions[from] =
                       recordTransaction(@, "send", coins[ref], recipientId,
                                         now)]
       IN  /\ \E R \in BeginProcess(S, tr, calls + 1, now) :
                /\ SetNet(R.net)
                /\ suspended' = suspended \o R.task
           /\ lastCall' = [NoCall EXCEPT
                             !.op = "processTransaction", !.from = from,
                             !.to = AgentIndexOf(recipientId),
                             !.coinIndex = coinIndex, !.coin = ref]
    /\ UNCHANGED <<now, options, streak>>

\* Network._retryPendingTransactions() is called, by the timer or by the
\* application, while at most one invocation is suspended, and runs until
\* it awaits: the entry is dropped after maxRetries, else retried
StartSweep ==
    /\ calls < MaxCalls
    /\ Len(pendingTransactions) = 1 /\ Len(suspended) <= 1
    /\ calls' = calls + 1
    /\ LET tx == pendingTransactions[1] IN
       IF tx.retries >= options.maxRetries
       THEN /\ pendingTransactions' = << >>
            /\ events' = Append(events,
                                Event("transaction:failed", tx.txId,
                                      tx.transaction.coin,
                                      "max retries exceeded", << >>,
                                      <<[retries |-> tx.retries,
                                         validations |-> tx.validations]>>))
            /\ suspended' = Orphaned(suspended, tx.txId, tx)
            /\ UNCHANGED <<agents, coins, wallets, transactions,
                           lastValidation, everValid>>
       ELSE \E R \in BeginProcess([Net EXCEPT !.pending[1].retries = @ + 1],
                                  tx.transaction, calls + 1, now) :
               /\ SetNet(R.net)
               /\ suspended' =
                     IF R.kind = "confirmed"
                     THEN Orphaned(suspended, tx.txId,
                                   [tx EXCEPT !.retries = @ + 1])
                     ELSE suspended \o R.task
    /\ lastCall' = [NoCall EXCEPT !.op = "retryPendingTransactions"]
    /\ UNCHANGED <<now, options, streak>>

\* The microtask queue runs the continuation at its head
RunMicrotask ==
    /\ Len(suspended) > 0
    /\ LET c == Head(suspended)
           isOrphan == Len(c.orphan) = 1
           S == IF isOrphan
                THEN [Net EXCEPT !.pending = Append(@, c.orphan[1])]
                ELSE Net
           k == IF isOrphan THEN Len(S.pending)
                ELSE PendingIndex(S.pending, c.txId)
       IN
       \E R \in {RunContinuation(S, k, c, now)} :
       LET deleted == Len(R.net.pending) < Len(S.pending)
           kept == IF isOrphan /\ ~deleted
                   THEN SubSeq(R.net.pending, 1, Len(R.net.pending) - 1)
                   ELSE R.net.pending
           rest == IF deleted /\ ~isOrphan
                   THEN Orphaned(Tail(suspended), c.txId,
                                 [S.pending[k] EXCEPT
                                    !.validations =
                                        Append(@, [valid |-> TRUE,
                                                   reason |-> "valid",
                                                   witnessId |-> c.ws[c.i]])])
                   ELSE Tail(suspended)
       IN  /\ SetNet([R.net EXCEPT !.pending = kept])
           /\ suspended' =
                 rest \o [j \in 1 .. Len(R.task) |->
                             IF isOrphan
                             THEN [R.task[j] EXCEPT
                                     !.orphan = <<R.net.pending[k]>>]
                             ELSE R.task[j]]
    /\ lastCall' = [NoCall EXCEPT !.op = "microtask"]
    /\ UNCHANGED <<now, options, streak, calls>>

\* Agent 0 sends its coin to agent 1 and agent 1 sends a coin to agent 2,
\* each with a signature the witnesses verify; the retry sweep starts;
\* continuations run
NextOverlap ==
    \/ \E coinIndex \in 0 .. Len(wallets[0]) - 1 :
          StartProcess(0, WalletId(1), coinIndex)
    \/ \E coinIndex \in 0 .. Len(wallets[1]) - 1 :
          StartProcess(1, WalletId(2), coinIndex)
    \/ StartSweep
    \/ RunMicrotask
    \/ Tick

SpecOverlap == InitNet /\ [][NextOverlap]_vars

\* C38 as stated: a transaction is completed at most once. For every
\* transaction id transaction:confirmed is emitted at most once, the coin
\* is in the recipient's wallet at most once, and coin.transfer has been
\* executed on a coin once for each confirmation it has had, also when a
\* retry sweep overlaps an earlier invocation.
C38_CompletedOnce ==
    /\ \A i, j \in 1 .. Len(events) :
          ( /\ i < j
            /\ events[i].type = "transaction:confirmed"
            /\ events[j].type = "transaction:confirmed" )
          => events[i].txId # events[j].txId
    /\ \A a \in Agents : \A i, j \in 1 .. Len(wallets[a]) :
          i # j => wallets[a][i] # wallets[a][j]

----------------------------------------------------------------------------
(* SpecCoinOps: split and merge called directly on the coins of one owner,  *)
(* a coin merged with itself included                                       *)

\* c.merge(c): this and otherCoin are the same object, so the value is
\* added to itself, the status becomes merged and the merge event is pushed
\* twice
CoinMergeItself(c, t) ==
    IF c.status # "active" THEN [thrown |-> TRUE, coin |-> c]
    ELSE LET mergeEvent == [type |-> "merge", timestamp |-> t,
                            coinId1 |-> c.id, coinId2 |-> c.id,
                            value1 |-> c.value, value2 |-> c.value,
                            hash |-> << >>]
         IN  [thrown |-> FALSE,
              coin |-> updateHash([c EXCEPT
                                     !.value = @ + c.value,
                                     !.status = "merged",
                                     !.history = @ \o <<mergeEvent,
                                                        mergeEvent>>])]

\* coins[r].merge(coins[r])
MergeItself(r) ==
    LET x == CoinMergeItself(coins[r], now) IN
    /\ calls < MaxCoinOps
    /\ calls' = calls + 1
    /\ coins' = [coins EXCEPT ![r] = x.coin]
    /\ lastCall' = [NoCall EXCEPT !.op = "merge", !.coin = r, !.to = r,
                                  !.success = ~x.thrown]
    /\ UNCHANGED <<now, options, agents, wallets, transactions,
                   pendingTransactions, events, lastValidation,
                   everValid, streak, suspended>>

NextCoinOps ==
    \/ \E r \in DOMAIN coins, newValue \in 0 .. MaxCoinValue :
          SplitDirectly(r, newValue)
    \/ \E r, other \in DOMAIN coins : MergeDirectly(r, other)
    \/ \E r \in DOMAIN coins : MergeItself(r)
    \/ Tick

SpecCoinOps == InitCoin /\ [][NextCoinOps]_vars

RECURSIVE ActiveValue(_, _)
\* The sum of the values of the active coins of owner among cs
ActiveValue(cs, owner) ==
    IF Len(cs) = 0 THEN 0
    ELSE (IF Head(cs).ownerId = owner /\ Head(cs).status = "active"
          THEN Head(cs).value ELSE 0)
         + ActiveValue(Tail(cs), owner)

\* C39 as stated: value conservation. A split or a merge leaves the sum of
\* the values of the owner's active coins as it was, and one that raises
\* leaves the coins as they were.
C39_ValueConserved ==
    [][(calls' = calls + 1 /\ lastCall'.op \in {"split", "merge"})
       => /\ ActiveValue(coins', WalletId(0)) = ActiveValue(coins, WalletId(0))
          /\ ~lastCall'.success => coins' = coins]_vars

----------------------------------------------------------------------------
(* SpecInitialize: validateTransfer called on agent 0 after                 *)
(* initialize(coinsPerAgent)                                                *)

\* The largest coinsPerAgent passed to initialize.
MaxCoinsPerAgent == 2

\* Network.initialize(coinsPerAgent): the agents afterwards. The key of an
\* agent is registered with every agent inside that agent's loop over its
\* coins, once per coin.
InitializedAgents(coinsPerAgent) ==
    [i \in Agents |->
        [NewAgent EXCEPT
           !.publicKeyDirectory =
               {WalletId(j) : j \in {a \in Agents : coinsPerAgent > 0}},
           !.reputation = SeededReputation(i, SeedScore(i))]]

\* Network.initialize(coinsPerAgent): the coins created, agent by agent,
\* each of value 2
InitializedCoins(coinsPerAgent) ==
    [r \in 1 .. numAgents * coinsPerAgent |->
        NewCoin(WalletId((r - 1) \div coinsPerAgent), 2, r, NULL, 1)]

RECURSIVE ReceivedAll(_, _, _)
\* The history of a wallet after addCoin of the coin objects refs
ReceivedAll(txs, cs, refs) ==
    IF Len(refs) = 0 THEN txs
    ELSE ReceivedAll(recordTransaction(txs, "receive", cs[Head(refs)], NULL,
                                       1),
                     cs, Tail(refs))

\* new Network() and initialize(coinsPerAgent)
InitInitialize ==
    /\ now = 1
    /\ options = DefaultOptions
    /\ pendingTransactions = << >>
    /\ events = << >>
    /\ lastCall = NoCall
    /\ lastValidation = NoValidation
    /\ everValid = {}
    /\ streak = << >>
    /\ suspended = << >>
    /\ calls = 0
    /\ \E coinsPerAgent \in 0 .. MaxCoinsPerAgent :
         /\ agents = InitializedAgents(coinsPerAgent)
         /\ coins = InitializedCoins(coinsPerAgent)
         /\ wallets = [i \in Agents |->
                          [j \in 1 .. coinsPerAgent |->
                              i * coinsPerAgent + j]]
         /\ transactions = [i \in Agents |->
                               ReceivedAll(<< >>, coins, wallets[i])]

SpecInitialize == InitInitialize /\ [][NextAgent]_vars

\* C40 as stated: after initialize(coinsPerAgent), for every coinsPerAgent
\* >= 0, the directory of every agent resolves the wallet id of every agent
\* of the roster, and no validation of a transfer sent by a roster agent is
\* rejected with 'unable to retrieve sender public key'.
C40_DirectoryComplete ==
    /\ \A a, b \in Agents :
          getPublicKeyForWallet(agents[a], WalletId(a), WalletId(b)).found
    /\ (lastValidation.n > 0
        /\ AgentIndexOf(lastValidation.transfer[1].sender) # -1)
       => lastValidation.reason # "unable to retrieve sender public key"

====
